---- MODULE Spec2Model ----
(***************************************************************************)
(* Store-identity reconciliation of the RCA tool: the fuzzy string scorer, *)
(* the address normaliser, the candidate field extractor and the match     *)
(* ranker of supabase/functions/database-query/index.ts; with them the     *)
(* client of src/lib/api.ts, the proxies of database-query, the retry loop *)
(* and the token cache of supabase/functions/stortrack-api/index.ts, and   *)
(* the sort state of components/rca/StepDataVisualization.tsx.             *)
(*                                                                         *)
(* Text is a sequence of one-character strings.  A JavaScript number that  *)
(* is a score is an exact rational <<numerator, denominator>>: the scores  *)
(* are quotients of string lengths and the weights are 4/10 and 6/10, so   *)
(* the comparisons the code makes are decided on the exact values.         *)
(***************************************************************************)
EXTENDS Integers, Sequences, FiniteSets, TLC

VARIABLES
    str1, str2, score, simpc,          \* one call of fuzzyMatchScore
    params, results, idx, scoredMatches,
    sfStoreBrand, sfStreet,            \* locals of the last pass of the loop
    nameScore, addressScore, combinedScore,
    branch,                            \* the way the last pass of the loop ended
    result, pc,                        \* one call of getSalesforceMetadataByAddress
    address, normalized, normpc,       \* one call of normalizeAddress
    reply, metadata, matchList, clientpc,  \* one call of the client, src/lib/api.ts
    token, maxRetries, attempt, responses, thrown, fetchpc,  \* one call of fetchHistoricalData
    bodies, data,                      \* the bodies received and the value returned
    now, cachedToken, tokenExpiry,     \* the clock and the token cache of stortrack-api
    returned, contacted, calls, tokpc,  \* the calls of getAuthToken
    queryParams, requestBody, sql, proxypc,  \* one queryDatabase request to database-query
    storeIds, jsonResponse, ratesByStore, datesByStore, ratespc,  \* one getTrailing12MonthRates request
    requests,  \* the requests to stortrack-api that are under way
    filterStore, sortField, sortDirection,  \* the state of StepDataVisualization
    seenField, updates, clicked        \* the last render, the queued updates, the clicks

simVars == <<str1, str2, score, simpc>>
rankVars == <<params, results, idx, scoredMatches, sfStoreBrand, sfStreet,
              nameScore, addressScore, combinedScore, branch, result, pc>>
normVars == <<address, normalized, normpc>>
\* the variables outside the scorer and the ranker
clientVars == <<reply, metadata, matchList, clientpc>>
fetchVars == <<token, maxRetries, attempt, responses, thrown, fetchpc, bodies, data>>
tokenVars == <<now, cachedToken, tokenExpiry, returned, contacted, calls, tokpc>>
proxyVars == <<queryParams, requestBody, sql, proxypc>>
ratesVars == <<storeIds, jsonResponse, ratesByStore, datesByStore, ratespc>>
sharedVars == <<requests>>
tableVars == <<filterStore, sortField, sortDirection, seenField, updates, clicked>>
outerVars == <<normVars, clientVars, fetchVars, tokenVars, proxyVars, ratesVars, sharedVars, tableVars>>
vars == <<simVars, rankVars, outerVars>>

\* ------------------------------------------------------------------ bounds
MaxLen == 3
MaxShort == 1
MaxTail == 3
MaxPieces == 3
MaxMatches == 1
MaxAttempts == 3
MaxTime == 57
MaxCalls == 3
MaxParams == 2
MaxDenominator == 8
MaxRows == 2
MaxRequests == 3
MaxJumps == 3
JumpMinutes == 30
MaxClicks == 3

\* ------------------------------------------------------------ characters
UpperCase == <<"A","B","C","D","E","F","G","H","I","J","K","L","M",
               "N","O","P","Q","R","S","T","U","V","W","X","Y","Z">>
LowerCase == <<"a","b","c","d","e","f","g","h","i","j","k","l","m",
               "n","o","p","q","r","s","t","u","v","w","x","y","z">>
Digits == {"0","1","2","3","4","5","6","7","8","9"}

Range(s) == {s[i] : i \in DOMAIN s}

\* the element of a one-element set; The({e(x) : x \in {v}}) is e with x bound to v
The(S) == CHOOSE x \in S : TRUE

IsDigit(c) == c \in Digits
IsLetter(c) == c \in Range(UpperCase) \cup Range(LowerCase)
\* \s of a regular expression and the white space String.trim removes
IsSpace(c) == c \in {" ", "\t", "\n", "\r"}
\* \w of a regular expression
IsWordChar(c) == IsLetter(c) \/ IsDigit(c) \/ c = "_"

LowerChar(c) ==
    IF c \in Range(UpperCase)
    THEN LowerCase[CHOOSE k \in DOMAIN UpperCase : UpperCase[k] = c]
    ELSE c

\* String.prototype.toLowerCase
toLowerCase(s) == [i \in 1..Len(s) |-> LowerChar(s[i])]

RECURSIVE trimStart(_)
trimStart(s) == IF s # <<>> /\ IsSpace(Head(s)) THEN trimStart(Tail(s)) ELSE s

RECURSIVE trimEnd(_)
trimEnd(s) ==
    IF s # <<>> /\ IsSpace(s[Len(s)]) THEN trimEnd(SubSeq(s, 1, Len(s) - 1)) ELSE s

\* a trim that leaves the trailing white space in place
trimLeadingOnly(s) == trimStart(s)

\* String.prototype.trim
trim(s) == trimEnd(trimStart(s))

\* the text at position i of s is pat
MatchAt(s, i, pat) ==
    /\ i >= 1
    /\ i + Len(pat) - 1 <= Len(s)
    /\ \A k \in 1..Len(pat) : s[i + k - 1] = pat[k]

\* String.prototype.includes
includes(s, pat) == \E i \in 1..(Len(s) + 1) : MatchAt(s, i, pat)

\* ------------------------------------------------------------- rationals
Rat(n, d) == <<n, d>>
RatEq(a, b) == a[1] * b[2] = b[1] * a[2]
RatLT(a, b) == a[1] * b[2] < b[1] * a[2]
RatLE(a, b) == a[1] * b[2] <= b[1] * a[2]
RatAdd(a, b) == <<a[1] * b[2] + b[1] * a[2], a[2] * b[2]>>
RatMul(a, b) == <<a[1] * b[1], a[2] * b[2]>>
\* Math.max
RatMax(a, b) == IF RatLT(a, b) THEN b ELSE a

\* ------------------------------------------------------- fuzzyMatchScore
\* a JavaScript array is a sequence: index j of the array is position j + 1
GetCost(costs, j) == costs[j + 1]

\* costs[j] = v (an assignment at index costs.length extends the array)
SetCost(costs, j, v) ==
    IF j + 1 <= Len(costs) THEN [costs EXCEPT ![j + 1] = v] ELSE Append(costs, v)

Min2(a, b) == IF a < b THEN a ELSE b

\* the inner loop without the two neighbours in the minimum of line 185
InnerStepSubstituteOnly(s1, s2, i, st) ==
    LET j == st.j
        costs == st.costs
        lastValue == st.lastValue
    IN IF i = 0
       THEN [j |-> j + 1, costs |-> SetCost(costs, j, j), lastValue |-> lastValue]
       ELSE IF j > 0
       THEN LET newValue0 == GetCost(costs, j - 1)
                newValue == IF s1[i] # s2[j] THEN newValue0 + 1 ELSE newValue0
            IN [j |-> j + 1, costs |-> SetCost(costs, j - 1, lastValue), lastValue |-> newValue]
       ELSE [j |-> j + 1, costs |-> costs, lastValue |-> lastValue]

\* one pass of the body of the inner loop; st holds j, costs and lastValue
InnerStep(s1, s2, i, st) ==
    LET j == st.j
        costs == st.costs
        lastValue == st.lastValue
    IN IF i = 0
       THEN [j |-> j + 1, costs |-> SetCost(costs, j, j), lastValue |-> lastValue]
       ELSE IF j > 0
       THEN LET newValue0 == GetCost(costs, j - 1)
                newValue == IF s1[i] # s2[j]
                            THEN Min2(Min2(newValue0, lastValue), GetCost(costs, j)) + 1
                            ELSE newValue0
            IN [j |-> j + 1, costs |-> SetCost(costs, j - 1, lastValue), lastValue |-> newValue]
       ELSE [j |-> j + 1, costs |-> costs, lastValue |-> lastValue]

\* for (let j = 0; j <= s2.length; j++)
RECURSIVE InnerLoop(_, _, _, _)
InnerLoop(s1, s2, i, st) ==
    IF st.j > Len(s2) THEN st
    ELSE The({InnerLoop(s1, s2, i, next) : next \in {InnerStep(s1, s2, i, st)}})

\* one pass of the body of the outer loop; st holds i and costs
OuterStep(s1, s2, st) ==
    The({[i |-> st.i + 1,
          costs |-> IF st.i > 0 THEN SetCost(r.costs, Len(s2), r.lastValue) ELSE r.costs] :
         r \in {InnerLoop(s1, s2, st.i, [j |-> 0, costs |-> st.costs, lastValue |-> st.i])}})

\* for (let i = 0; i <= s1.length; i++)
RECURSIVE OuterLoop(_, _, _)
OuterLoop(s1, s2, st) ==
    IF st.i > Len(s1) THEN st
    ELSE The({OuterLoop(s1, s2, next) : next \in {OuterStep(s1, s2, st)}})

\* costs[s2.length] after the loops
EditDistance(s1, s2) == GetCost(OuterLoop(s1, s2, [i |-> 0, costs |-> <<>>]).costs, Len(s2))

\* the score with the first text always taken as the longer one
ScoreTrimmedFirstLonger(s1, s2) ==
    IF s1 = s2 THEN Rat(1, 1)
    ELSE IF Len(s1) = 0 THEN Rat(1, 1)
    ELSE IF includes(s1, s2) THEN Rat(Len(s2), Len(s1))
    ELSE Rat(Len(s1) - EditDistance(s1, s2), Len(s1))

\* lines 162-194, on the lowercased and trimmed texts
ScoreTrimmed(s1, s2) ==
    LET longer == IF Len(s1) > Len(s2) THEN s1 ELSE s2
        shorter == IF Len(s1) > Len(s2) THEN s2 ELSE s1
    IN IF s1 = s2 THEN Rat(1, 1)
       ELSE IF Len(longer) = 0 THEN Rat(1, 1)
       ELSE IF includes(longer, shorter) THEN Rat(Len(shorter), Len(longer))
       ELSE Rat(Len(longer) - EditDistance(s1, s2), Len(longer))

\* the scorer without the guard of line 157
fuzzyMatchScoreNoGuard(a, b) ==
    The({ScoreTrimmed(s1, s2) : s1 \in {trim(toLowerCase(a))}, s2 \in {trim(toLowerCase(b))}})

fuzzyMatchScore(a, b) ==
    IF a = <<>> \/ b = <<>> THEN Rat(0, 1)
    ELSE The({ScoreTrimmed(s1, s2) : s1 \in {trim(toLowerCase(a))}, s2 \in {trim(toLowerCase(b))}})

\* ------------------------------------------------------ normalizeAddress
\* String.prototype.replace(/[.,#]/g, '')
StripPunct(s) == SelectSeq(s, LAMBDA c : c \notin {".", ",", "#"})

\* String.prototype.replace(/\s+/g, ' ')
RECURSIVE CollapseSpace(_)
CollapseSpace(s) ==
    IF s = <<>> THEN <<>>
    ELSE IF IsSpace(Head(s)) THEN <<" ">> \o CollapseSpace(trimStart(s))
    ELSE <<Head(s)>> \o CollapseSpace(Tail(s))

\* a boundary wherever it is asked for: the words are replaced inside longer words too
WordBoundaryAnywhere(s, i) == TRUE

\* \b at the gap before position i of s
WordBoundary(s, i) ==
    LET before == i > 1 /\ i - 1 <= Len(s) /\ IsWordChar(s[i - 1])
        after == i >= 1 /\ i <= Len(s) /\ IsWordChar(s[i])
    IN before # after

\* String.prototype.replace(/\bword\b/g, abbr), scanning from position i
RECURSIVE ReplaceWordFrom(_, _, _, _)
ReplaceWordFrom(s, i, word, abbr) ==
    IF i > Len(s) THEN <<>>
    ELSE IF MatchAt(s, i, word) /\ WordBoundary(s, i) /\ WordBoundary(s, i + Len(word))
    THEN abbr \o ReplaceWordFrom(s, i + Len(word), word, abbr)
    ELSE <<s[i]>> \o ReplaceWordFrom(s, i + 1, word, abbr)

ReplaceWord(s, word, abbr) == ReplaceWordFrom(s, 1, word, abbr)

\* the replacements of normalizeAddress, in the order the code chains them
Abbreviations == <<
    << <<"a","v","e","n","u","e">>,             <<"a","v","e">> >>,
    << <<"s","t","r","e","e","t">>,             <<"s","t">> >>,
    << <<"d","r","i","v","e">>,                 <<"d","r">> >>,
    << <<"b","o","u","l","e","v","a","r","d">>, <<"b","l","v","d">> >>,
    << <<"r","o","a","d">>,                     <<"r","d">> >>,
    << <<"l","a","n","e">>,                     <<"l","n">> >>,
    << <<"c","o","u","r","t">>,                 <<"c","t">> >>,
    << <<"n","o","r","t","h">>,                 <<"n">> >>,
    << <<"s","o","u","t","h">>,                 <<"s">> >>,
    << <<"e","a","s","t">>,                     <<"e">> >>,
    << <<"w","e","s","t">>,                     <<"w">> >>,
    << <<"n","o","r","t","h","e","a","s","t">>, <<"n","e">> >>,
    << <<"n","o","r","t","h","w","e","s","t">>, <<"n","w">> >>,
    << <<"s","o","u","t","h","e","a","s","t">>, <<"s","e">> >>,
    << <<"s","o","u","t","h","w","e","s","t">>, <<"s","w">> >> >>

RECURSIVE ApplyAbbreviations(_, _)
ApplyAbbreviations(s, k) ==
    IF k > Len(Abbreviations) THEN s
    ELSE ApplyAbbreviations(ReplaceWord(s, Abbreviations[k][1], Abbreviations[k][2]), k + 1)

\* normalizeAddress on a string (address || '' makes the absent address the empty text)
normalizeAddress(addr) ==
    ApplyAbbreviations(CollapseSpace(StripPunct(trim(toLowerCase(addr)))), 1)

\* ---------------------------------------------------- JavaScript values
\* a value of type any: t is its type, s its text, n its number, m its members
Str(s) == [t |-> "string", s |-> s, n |-> 0, m |-> <<>>]
Num(n) == [t |-> "number", s |-> <<>>, n |-> n, m |-> <<>>]
Bool(b) == [t |-> "boolean", s |-> <<>>, n |-> IF b THEN 1 ELSE 0, m |-> <<>>]
Obj(members) == [t |-> "object", s |-> <<>>, n |-> 0, m |-> members]
Null == [t |-> "null", s |-> <<>>, n |-> 0, m |-> <<>>]
Undefined == [t |-> "undefined", s |-> <<>>, n |-> 0, m |-> <<>>]
Member(k, v) == [k |-> k, v |-> v]

\* the truth value of v in a condition, in !v and in v || w
Truthy(v) ==
    CASE v.t = "string" -> v.s # <<>>
      [] v.t = "number" -> v.n # 0
      [] v.t = "boolean" -> v.n = 1
      [] v.t = "object" -> TRUE
      [] OTHER -> FALSE

\* v.key, for a v that is neither null nor undefined
GetProp(v, key) ==
    IF v.t = "object" /\ \E k \in DOMAIN v.m : v.m[k].k = key
    THEN v.m[CHOOSE k \in DOMAIN v.m :
                 v.m[k].k = key /\ \A l \in DOMAIN v.m : v.m[l].k = key => l <= k].v
    ELSE Undefined

\* ------------------------------------------------------------ JSON.parse
\* The grammar covers white space, strings without escapes, integers, the
\* three literals and objects; the texts parsed here hold no array, no
\* fraction, no exponent and no backslash.
ParseFail == [ok |-> FALSE, v |-> Null, i |-> 0]
Parsed(v, i) == [ok |-> TRUE, v |-> v, i |-> i]

RECURSIVE SkipWs(_, _)
SkipWs(s, i) == IF i <= Len(s) /\ IsSpace(s[i]) THEN SkipWs(s, i + 1) ELSE i

SetMin(S) == CHOOSE x \in S : \A y \in S : x <= y

\* a string literal whose opening quote is at position i
ParseString(s, i) ==
    LET ends == {k \in (i + 1)..Len(s) : s[k] = "\""}
    IN IF ends = {} THEN ParseFail
       ELSE LET e == SetMin(ends)
                body == SubSeq(s, i + 1, e - 1)
            IN IF \E k \in DOMAIN body : body[k] = "\\" \/ body[k] \in {"\t", "\n", "\r"}
               THEN ParseFail
               ELSE Parsed(Str(body), e + 1)

DigitValue(c) == CHOOSE d \in 0..9 : <<"0","1","2","3","4","5","6","7","8","9">>[d + 1] = c

\* the digits from position i on, as [n, i]: their value after acc and the position after them
RECURSIVE ParseDigits(_, _, _)
ParseDigits(s, i, acc) ==
    IF i <= Len(s) /\ IsDigit(s[i])
    THEN ParseDigits(s, i + 1, acc * 10 + DigitValue(s[i]))
    ELSE [n |-> acc, i |-> i]

\* an integer literal at position i
ParseNumber(s, i) ==
    LET neg == s[i] = "-"
        first == IF neg THEN i + 1 ELSE i
    IN IF first > Len(s) \/ ~IsDigit(s[first]) THEN ParseFail
       ELSE IF s[first] = "0" THEN Parsed(Num(0), first + 1)
       ELSE LET d == ParseDigits(s, first, 0)
            IN Parsed(Num(IF neg THEN 0 - d.n ELSE d.n), d.i)

\* what follows the value val of the member named key: the end of the object,
\* or a comma and the next member
AfterMember(s, key, val, acc, sep) ==
    IF ~val.ok \/ sep > Len(s) THEN [more |-> FALSE, r |-> ParseFail, i |-> 0, acc |-> <<>>]
    ELSE IF s[sep] = "}"
    THEN [more |-> FALSE, r |-> Parsed(Obj(Append(acc, Member(key, val.v))), sep + 1),
          i |-> 0, acc |-> <<>>]
    ELSE IF s[sep] = ","
    THEN [more |-> TRUE, r |-> ParseFail, i |-> SkipWs(s, sep + 1),
          acc |-> Append(acc, Member(key, val.v))]
    ELSE [more |-> FALSE, r |-> ParseFail, i |-> 0, acc |-> <<>>]

\* mode "value": a value, after white space, from position i on;
\* mode "members": the members of an object from position i (a key's opening
\* quote) on, behind the members acc
RECURSIVE ParseJson(_, _, _, _)
ParseJson(mode, s, i, acc) ==
    IF mode = "members"
    THEN IF i > Len(s) \/ s[i] # "\"" THEN ParseFail
         ELSE The({
            IF ~key.ok \/ SkipWs(s, key.i) > Len(s) \/ s[SkipWs(s, key.i)] # ":" THEN ParseFail
            ELSE The({
                The({IF after.more THEN ParseJson("members", s, after.i, after.acc) ELSE after.r :
                     after \in {AfterMember(s, key.v.s, val, acc, SkipWs(s, val.i))}}) :
                val \in {ParseJson("value", s, SkipWs(s, key.i) + 1, <<>>)}}) :
            key \in {ParseString(s, i)}})
    ELSE The({
         IF p > Len(s) THEN ParseFail
         ELSE IF s[p] = "\"" THEN ParseString(s, p)
         ELSE IF s[p] = "{" THEN
              The({IF q <= Len(s) /\ s[q] = "}" THEN Parsed(Obj(<<>>), q + 1)
                   ELSE ParseJson("members", s, q, <<>>) :
                   q \in {SkipWs(s, p + 1)}})
         ELSE IF MatchAt(s, p, <<"n","u","l","l">>) THEN Parsed(Null, p + 4)
         ELSE IF MatchAt(s, p, <<"t","r","u","e">>) THEN Parsed(Bool(TRUE), p + 4)
         ELSE IF MatchAt(s, p, <<"f","a","l","s","e">>) THEN Parsed(Bool(FALSE), p + 5)
         ELSE IF s[p] = "-" \/ IsDigit(s[p]) THEN ParseNumber(s, p)
         ELSE ParseFail :
         p \in {SkipWs(s, i)}})

\* JSON.parse(s): ok is FALSE where it throws a SyntaxError
JSONparse(s) ==
    The({IF r.ok /\ SkipWs(s, r.i) > Len(s) THEN r ELSE ParseFail :
         r \in {ParseJson("value", s, 1, <<>>)}})

\* ------------------------------------------------------- parsePythonDict
\* String.prototype.replace(/pat/g, rep) for a literal pat, from position i
RECURSIVE ReplaceAllFrom(_, _, _, _)
ReplaceAllFrom(s, i, pat, rep) ==
    IF i > Len(s) THEN <<>>
    ELSE IF MatchAt(s, i, pat) THEN rep \o ReplaceAllFrom(s, i + Len(pat), pat, rep)
    ELSE <<s[i]>> \o ReplaceAllFrom(s, i + 1, pat, rep)

ReplaceAll(s, pat, rep) == ReplaceAllFrom(s, 1, pat, rep)

\* the four replacements that turn the Python dict text into JSON text
PythonToJson(s) ==
    ReplaceAll(
      ReplaceAll(
        ReplaceAll(
          ReplaceAll(s, <<"'">>, <<"\"">>),
          <<"N","o","n","e">>, <<"n","u","l","l">>),
        <<"T","r","u","e">>, <<"t","r","u","e">>),
      <<"F","a","l","s","e">>, <<"f","a","l","s","e">>)

\* the inner try: the replaced text parsed, null where JSON.parse throws
ParseLoose(text) ==
    The({IF loose.ok THEN loose.v ELSE Null : loose \in {JSONparse(PythonToJson(text))}})

parsePythonDict(dictStr) ==
    IF ~Truthy(dictStr) \/ dictStr.t # "string" THEN Null
    ELSE The({IF strict.ok THEN strict.v ELSE ParseLoose(dictStr.s) :
              strict \in {JSONparse(dictStr.s)}})

\* ---------------------------------------- getSalesforceMetadataByAddress
TopN == 10
NameWeight == Rat(4, 10)
AddressWeight == Rat(6, 10)
CombinedThreshold == Rat(3, 10)
\* an address threshold below one half
AddressThresholdLow == Rat(4, 10)

AddressThreshold == Rat(5, 10)

Separator == <<" ", "-", " ">>
StreetKey == <<"s","t","r","e","e","t">>

\* String.prototype.split(sep): the parts of s from position i on, the current part starting at start
RECURSIVE SplitFrom(_, _, _, _)
SplitFrom(s, sep, i, start) ==
    IF i > Len(s) THEN <<SubSeq(s, start, Len(s))>>
    ELSE IF MatchAt(s, i, sep)
    THEN <<SubSeq(s, start, i - 1)>> \o SplitFrom(s, sep, i + Len(sep), i + Len(sep))
    ELSE SplitFrom(s, sep, i + 1, start)

split(s, sep) == SplitFrom(s, sep, 1, 1)

\* /\d+/.test(s)
HasDigit(s) == \E i \in DOMAIN s : IsDigit(s[i])

StreetWords == {<<"s","t">>, <<"a","v","e">>, <<"r","d">>, <<"b","l","v","d">>, <<"d","r">>,
                <<"w","a","y">>, <<"l","a","n","e">>, <<"c","o","u","r","t">>}

\* /(st|ave|rd|blvd|dr|way|lane|court)/i.test(s)
LooksLikeStreet(s) == \E w \in StreetWords : includes(toLowerCase(s), w)

\* the street of the query taken as it is
TargetStreetRaw(p) == IF Truthy(p.street) THEN p.street.s ELSE <<>>

\* const targetStreet = normalizeAddress(params.street)
TargetStreet(p) == normalizeAddress(IF Truthy(p.street) THEN p.street.s ELSE <<>>)

\* const targetStoreName = (params.storeName || '').toLowerCase().trim()
TargetStoreName(p) == trim(toLowerCase(IF Truthy(p.storeName) THEN p.storeName.s ELSE <<>>))

\* record.Name || ''
SfName(record) == IF Truthy(record.Name) THEN record.Name ELSE Str(<<>>)

\* the brand: the text of the name before the first separator, else the name
SfStoreBrand(name) ==
    IF includes(name, Separator) THEN trim(split(name, Separator)[1]) ELSE name

\* the street taken from the Name field, '' when it does not look like an address
StreetFromName(name) ==
    The({IF Len(nameParts) >= 2
         THEN The({IF HasDigit(potentialAddress) \/ LooksLikeStreet(potentialAddress)
                   THEN potentialAddress
                   ELSE <<>> :
                   potentialAddress \in {trim(nameParts[2])}})
         ELSE <<>> :
         nameParts \in {split(name, Separator)}})

\* sfStreet after lines 298-314, for a record whose name is the string name
SfStreet(record, name) ==
    The({IF Truthy(shippingAddress) /\ Truthy(GetProp(shippingAddress, StreetKey))
         THEN GetProp(shippingAddress, StreetKey)
         ELSE IF includes(name, Separator) THEN Str(StreetFromName(name))
         ELSE Str(<<>>) :
         shippingAddress \in {parsePythonDict(record.ShippingAddress)}})

NameScore(p, name, brand) ==
    The({RatMax(nameScoreFull, nameScoreBrand) :
         nameScoreFull \in {fuzzyMatchScore(TargetStoreName(p), toLowerCase(name))},
         nameScoreBrand \in {fuzzyMatchScore(TargetStoreName(p), toLowerCase(brand))}})

AddressScore(p, street) == fuzzyMatchScore(TargetStreet(p), normalizeAddress(street))

\* the weights of line 327 exchanged
CombinedScoreSwapped(nScore, aScore) ==
    RatAdd(RatMul(nScore, AddressWeight), RatMul(aScore, NameWeight))

CombinedScore(nScore, aScore) ==
    RatAdd(RatMul(nScore, NameWeight), RatMul(aScore, AddressWeight))

\* the test of line 330 with && in place of ||
RelevantBoth(cScore, aScore) ==
    RatLT(CombinedThreshold, cScore) /\ RatLT(AddressThreshold, aScore)

\* if (combinedScore > 0.3 || addressScore > 0.5)
Relevant(cScore, aScore) ==
    RatLT(CombinedThreshold, cScore) \/ RatLT(AddressThreshold, aScore)

\* the loop without the continue of line 316
NoStreetNever(street) == FALSE

\* if (!sfStreet) continue
NoStreet(street) == ~Truthy(street)

\* the entry pushed at lines 331-341
Match(record, name, brand, street, nScore, aScore) ==
    [Name |-> name,
     Year_Built__c |-> record.Year_Built__c,
     Net_RSF__c |-> record.Net_RSF__c,
     ShippingAddress |-> record.ShippingAddress,
     nameScore |-> nScore,
     addressScore |-> aScore,
     combinedScore |-> CombinedScore(nScore, aScore),
     parsedStoreName |-> brand,
     parsedAddress |-> street]

\* lines 318-342, for a record whose street is the non-empty string street
Scored(p, record, name, brand, street) ==
    The({[branch |-> IF Relevant(m.combinedScore, m.addressScore) THEN "push" ELSE "drop",
          sfStoreBrand |-> brand, sfStreet |-> Str(street), match |-> <<m>>] :
         m \in {Match(record, name, brand, street,
                      NameScore(p, name, brand), AddressScore(p, street))}})

\* One pass of the loop body for record under the query p.  branch is
\*   "throw"  a TypeError leaves the function (a method of String is called
\*            on a value that is no string: sfName.includes at line 295,
\*            address.toLowerCase at line 200),
\*   "skip"   no street: continue,
\*   "drop"   scored and not relevant,
\*   "push"   scored and appended to scoredMatches.
\* match holds the scored entry of a "drop" and of a "push".
Iteration(p, record) ==
    The({IF sfName.t # "string"
         THEN [branch |-> "throw", sfStoreBrand |-> <<>>, sfStreet |-> Str(<<>>), match |-> <<>>]
         ELSE The({
              IF NoStreet(street)
              THEN [branch |-> "skip", sfStoreBrand |-> brand, sfStreet |-> street, match |-> <<>>]
              ELSE IF street.t # "string"
              THEN [branch |-> "throw", sfStoreBrand |-> brand, sfStreet |-> street, match |-> <<>>]
              ELSE Scored(p, record, sfName.s, brand, street.s) :
              brand \in {SfStoreBrand(sfName.s)}, street \in {SfStreet(record, sfName.s)}}) :
         sfName \in {SfName(record)}})

\* the comparator (a, b) => b.combinedScore - a.combinedScore is positive: b goes first
GoesBefore(b, a) == RatLT(a.combinedScore, b.combinedScore)

\* m put in front of the elements it ties with
InsertMatchBeforeTies(sorted, m) ==
    LET k == Cardinality({i \in DOMAIN sorted : GoesBefore(sorted[i], m)})
    IN SubSeq(sorted, 1, k) \o <<m>> \o SubSeq(sorted, k + 1, Len(sorted))

\* m put into the sorted sequence behind every element it does not go before
InsertMatch(sorted, m) ==
    LET k == Cardinality({i \in DOMAIN sorted : ~GoesBefore(m, sorted[i])})
    IN SubSeq(sorted, 1, k) \o <<m>> \o SubSeq(sorted, k + 1, Len(sorted))

\* Array.prototype.sort with the comparator above (the sort is stable)
RECURSIVE SortFrom(_, _, _)
SortFrom(seq, i, sorted) ==
    IF i > Len(seq) THEN sorted
    ELSE The({SortFrom(seq, i + 1, next) : next \in {InsertMatch(sorted, seq[i])}})

SortMatches(seq) == SortFrom(seq, 1, <<>>)

\* a slice that keeps one entry more
SliceTopOffByOne(seq, n) == SubSeq(seq, 1, Min2(n + 1, Len(seq)))

\* Array.prototype.slice(0, n)
SliceTop(seq, n) == SubSeq(seq, 1, Min2(n, Len(seq)))

\* ------------------------------------------------------------ the inputs
TxtAcme == <<"A","c","m","e">>
TxtX == <<"X">>
TxtY == <<"Y">>
TxtAcmeOak == <<"A","c","m","e"," ","S","t","o","r","a","g","e"," ","-"," ","4","5","6"," ","O","a","k"," ","A","v","e">>
TxtAcmeDowntown == <<"A","c","m","e"," ","S","t","o","r","a","g","e"," ","-"," ","D","o","w","n","t","o","w","n">>
TxtAcmeAustin == <<"A","c","m","e"," ","-"," ","A","u","s","t","i","n">>
TxtZedElm == <<"Z","e","d"," ","-"," ","9"," ","E","l","m"," ","S","t">>
TxtAcmeMain == <<"A","c","m","e"," ","-"," ","1","2"," ","M","a","i","n"," ","S","t">>
TxtNA == <<"N","/","A">>
TxtOakAve == <<"4","5","6"," ","O","a","k"," ","A","v","e">>
TxtOakAvenue == <<"4","5","6"," ","O","a","k"," ","A","v","e","n","u","e">>
TxtPineRd == <<"7","8","9"," ","P","i","n","e"," ","R","d">>
TxtPineRoad == <<"7","8","9"," ","P","i","n","e"," ","R","o","a","d">>
TxtTrueSt == <<"1"," ","T","r","u","e"," ","S","t">>
TxtOakRd == <<"4","5","6"," ","O","a","k"," ","R","d">>
TxtElmRd == <<"4","5","6"," ","E","l","m"," ","R","d">>
TxtMetro == <<"M","e","t","r","o">>
TxtCity == <<"c","i","t","y">>
TxtGeo == <<"g","e","o">>
Txt2005 == <<"2","0","0","5">>

\* The ShippingAddress column holds the text of a mapping, written by the
\* CRM export either as JSON or as a Python dict.
RECURSIVE NumText(_)
NumText(n) ==
    IF n < 10 THEN <<<<"0","1","2","3","4","5","6","7","8","9">>[n + 1]>>
    ELSE NumText(n \div 10) \o NumText(n % 10)

JsonValueText(v) ==
    CASE v.t = "string" -> <<"\"">> \o v.s \o <<"\"">>
      [] v.t = "number" -> NumText(v.n)
      [] v.t = "boolean" -> IF v.n = 1 THEN <<"t","r","u","e">> ELSE <<"f","a","l","s","e">>
      [] OTHER -> <<"n","u","l","l">>

PyValueText(v) ==
    CASE v.t = "string" -> <<"'">> \o v.s \o <<"'">>
      [] v.t = "number" -> NumText(v.n)
      [] v.t = "boolean" -> IF v.n = 1 THEN <<"T","r","u","e">> ELSE <<"F","a","l","s","e">>
      [] OTHER -> <<"N","o","n","e">>

RECURSIVE JsonMembersText(_, _)
JsonMembersText(m, k) ==
    IF k > Len(m) THEN <<>>
    ELSE (IF k > 1 THEN <<",", " ">> ELSE <<>>)
         \o <<"\"">> \o m[k].k \o <<"\"", ":", " ">> \o JsonValueText(m[k].v)
         \o JsonMembersText(m, k + 1)

RECURSIVE PyMembersText(_, _)
PyMembersText(m, k) ==
    IF k > Len(m) THEN <<>>
    ELSE (IF k > 1 THEN <<",", " ">> ELSE <<>>)
         \o <<"'">> \o m[k].k \o <<"'", ":", " ">> \o PyValueText(m[k].v)
         \o PyMembersText(m, k + 1)

\* the mapping m as JSON text and as Python dict text
JsonText(m) == <<"{">> \o JsonMembersText(m, 1) \o <<"}">>
PyText(m) == <<"{">> \o PyMembersText(m, 1) \o <<"}">>

\* mappings with a non-empty street text
AddrPine == <<Member(StreetKey, Str(TxtPineRd)), Member(TxtCity, Str(TxtMetro))>>
AddrOak == <<Member(StreetKey, Str(TxtOakAve))>>
AddrTrue == <<Member(StreetKey, Str(TxtTrueSt))>>
AddrPineGeo == <<Member(StreetKey, Str(TxtPineRd)), Member(TxtGeo, Null)>>
\* streets near the one asked for
AddrOakRd == <<Member(StreetKey, Str(TxtOakRd))>>
AddrElmRd == <<Member(StreetKey, Str(TxtElmRd))>>
StreetMappings == {AddrPine, AddrOak, AddrTrue, AddrPineGeo}
\* mappings without one
AddrNoStreet == <<Member(TxtCity, Str(TxtMetro))>>
AddrNumberStreet == <<Member(StreetKey, Num(123))>>
AddrEmptyStreet == <<Member(StreetKey, Str(<<>>))>>

Record(name, shippingAddress) ==
    [Name |-> name, Year_Built__c |-> Str(Txt2005), Net_RSF__c |-> Null,
     ShippingAddress |-> shippingAddress]

RecAcmeOak == Record(Str(TxtAcmeOak), Null)
RecXOakJson == Record(Str(TxtX), Str(JsonText(AddrOak)))
RecYOakJson == Record(Str(TxtY), Str(JsonText(AddrOak)))
RecZedElm == Record(Str(TxtZedElm), Str(TxtNA))
RecAcme == Record(Str(TxtAcme), Null)

\* the rows the data service may return for the query of line 261
Pool == {
    RecAcmeOak,
    Record(Str(TxtAcmeDowntown), Null),
    Record(Str(TxtX), Str(PyText(AddrPine))),
    RecXOakJson,
    Record(Str(TxtX), Obj(AddrOak)),
    Record(Str(TxtX), Str(PyText(AddrTrue))),
    Record(Str(TxtX), Str(JsonText(AddrOakRd))),
    Record(Str(TxtX), Str(PyText(AddrElmRd))),
    Record(Str(TxtX), Str(JsonText(AddrNumberStreet))),
    Record(Str(TxtAcmeAustin), Null),
    RecAcme,
    RecZedElm,
    Record(Str(TxtAcmeMain), Str(PyText(AddrPineGeo))),
    Record(Str(TxtAcmeMain), Str(PyText(AddrNoStreet))),
    Record(Null, Str(JsonText(AddrOak))),
    Record(Num(7), Null),
    Record(Str(TxtZedElm), Str(JsonText(AddrEmptyStreet))) }

TinyPool == {RecAcmeOak, RecXOakJson, RecYOakJson}
LongPrefix == <<RecXOakJson, RecAcmeOak, RecAcme, RecYOakJson, RecXOakJson,
                RecZedElm, RecAcmeOak, RecYOakJson, RecXOakJson, RecAcmeOak>>

RECURSIVE SeqsUpTo(_, _)
SeqsUpTo(S, n) ==
    IF n = 0 THEN {<<>>}
    ELSE LET shorterOnes == SeqsUpTo(S, n - 1)
         IN shorterOnes \cup {Append(q, x) : q \in shorterOnes, x \in S}

\* the arrays of rows: a few rows of any kind, or more rows than TopN
ResultSets ==
    SeqsUpTo(Pool, MaxShort) \cup {LongPrefix \o tail : tail \in SeqsUpTo(TinyPool, MaxTail)}

\* the params of a request
Queries ==
    {[street |-> st, storeName |-> nm] :
        st \in {Str(TxtOakAvenue), Str(TxtPineRoad)}, nm \in {Undefined, Str(TxtAcme)}}

NormIdle ==
    /\ address = <<>>
    /\ normalized = <<>>
    /\ normpc = "idle"

ClientIdle ==
    /\ reply = [error |-> FALSE, success |-> TRUE, kind |-> "null", items |-> <<>>]
    /\ metadata = [t |-> "null", s |-> <<>>, n |-> 0, m |-> <<>>]
    /\ matchList = <<>>
    /\ clientpc = "idle"

FetchIdle ==
    /\ token = <<>>
    /\ maxRetries = 0
    /\ attempt = 0
    /\ responses = <<>>
    /\ thrown = [message |-> "", status |-> 0]
    /\ fetchpc = "idle"
    /\ bodies = <<>>
    /\ data = [t |-> "undefined", items |-> <<>>, id |-> 0]

TokenIdle ==
    /\ now = 0
    /\ cachedToken = <<>>
    /\ tokenExpiry = 0
    /\ returned = <<>>
    /\ contacted = FALSE
    /\ calls = 0
    /\ tokpc = "off"

ProxyIdle ==
    /\ queryParams = Undefined
    /\ requestBody = Undefined
    /\ sql = <<>>
    /\ proxypc = "off"

RatesIdle ==
    /\ storeIds = <<>>
    /\ jsonResponse = [t |-> "undefined", items |-> <<>>, id |-> 0]
    /\ ratesByStore = <<>>
    /\ datesByStore = <<>>
    /\ ratespc = "off"

SharedIdle ==
    /\ requests = <<>>

TableIdle ==
    /\ filterStore = "none"
    /\ sortField = "none"
    /\ sortDirection = "none"
    /\ seenField = "none"
    /\ updates = <<>>
    /\ clicked = <<>>

OuterIdle == NormIdle /\ ClientIdle /\ FetchIdle /\ TokenIdle /\ ProxyIdle /\ RatesIdle /\ SharedIdle /\ TableIdle

SimIdle ==
    /\ str1 = <<>>
    /\ str2 = <<>>
    /\ score = Rat(0, 1)
    /\ simpc = "idle"

RankInit ==
    /\ params \in Queries
    /\ results \in ResultSets
    /\ idx = 0
    /\ scoredMatches = <<>>
    /\ sfStoreBrand = <<>>
    /\ sfStreet = Str(<<>>)
    /\ nameScore = Rat(0, 1)
    /\ addressScore = Rat(0, 1)
    /\ combinedScore = Rat(0, 1)
    /\ branch = "none"
    /\ result = <<>>
    /\ pc = "query"
    /\ SimIdle
    /\ OuterIdle

\* lines 267-272: no rows, return []
ReturnEmpty ==
    /\ pc = "query"
    /\ Len(results) = 0
    /\ pc' = "done"
    /\ result' = <<>>
    /\ UNCHANGED <<params, results, idx, scoredMatches, sfStoreBrand, sfStreet,
                   nameScore, addressScore, combinedScore, branch>>
    /\ UNCHANGED simVars
    /\ UNCHANGED outerVars

\* lines 274-289: rows came back, enter the loop
EnterLoop ==
    /\ pc = "query"
    /\ Len(results) > 0
    /\ pc' = "loop"
    /\ idx' = 1
    /\ UNCHANGED <<params, results, scoredMatches, sfStoreBrand, sfStreet,
                   nameScore, addressScore, combinedScore, branch, result>>
    /\ UNCHANGED simVars
    /\ UNCHANGED outerVars

\* lines 291-343: one pass of for (const record of results)
ProcessRecord ==
    /\ pc = "loop"
    /\ idx <= Len(results)
    /\ \E it \in {Iteration(params, results[idx])} :
          /\ branch' = it.branch
          /\ sfStoreBrand' = it.sfStoreBrand
          /\ sfStreet' = it.sfStreet
          /\ nameScore' = IF it.match = <<>> THEN Rat(0, 1) ELSE it.match[1].nameScore
          /\ addressScore' = IF it.match = <<>> THEN Rat(0, 1) ELSE it.match[1].addressScore
          /\ combinedScore' = IF it.match = <<>> THEN Rat(0, 1) ELSE it.match[1].combinedScore
          /\ scoredMatches' = IF it.branch = "push" THEN scoredMatches \o it.match
                              ELSE scoredMatches
          /\ pc' = IF it.branch = "throw" THEN "threw" ELSE "loop"
          /\ idx' = IF it.branch = "throw" THEN idx ELSE idx + 1
    /\ UNCHANGED <<params, results, result>>
    /\ UNCHANGED simVars
    /\ UNCHANGED outerVars

\* lines 345-350: sort in place, return the first ten
SortAndReturn ==
    /\ pc = "loop"
    /\ idx > Len(results)
    /\ \E sorted \in {SortMatches(scoredMatches)} :
          /\ scoredMatches' = sorted
          /\ result' = SliceTop(sorted, TopN)
    /\ pc' = "done"
    /\ UNCHANGED <<params, results, idx, sfStoreBrand, sfStreet,
                   nameScore, addressScore, combinedScore, branch>>
    /\ UNCHANGED simVars
    /\ UNCHANGED outerVars

RankNext == ReturnEmpty \/ EnterLoop \/ ProcessRecord \/ SortAndReturn

SpecRank == RankInit /\ [][RankNext]_vars

\* ------------------------------------------------ the scorer on its own
SimAlphabet == {"a", "A", "b", " "}

RECURSIVE StringsUpTo(_)
StringsUpTo(n) ==
    IF n = 0 THEN {<<>>}
    ELSE LET shorterOnes == StringsUpTo(n - 1)
         IN shorterOnes \cup {Append(s, c) : s \in shorterOnes, c \in SimAlphabet}

\* longer words, for the edit distance
SimWords ==
    {<<"k","i","t","t","e","n">>, <<"S","i","t","t","i","n","g">>,
     <<"s","u","n","d","a","y">>, <<"s","a","t","u","r","d","a","y">>,
     <<"f","l","a","w">>, <<"l","a","w","n">>}

SimStrings == StringsUpTo(MaxLen) \cup SimWords

RankIdle ==
    /\ params = [street |-> Str(<<>>), storeName |-> Undefined]
    /\ results = <<>>
    /\ idx = 0
    /\ scoredMatches = <<>>
    /\ sfStoreBrand = <<>>
    /\ sfStreet = Str(<<>>)
    /\ nameScore = Rat(0, 1)
    /\ addressScore = Rat(0, 1)
    /\ combinedScore = Rat(0, 1)
    /\ branch = "none"
    /\ result = <<>>
    /\ pc = "idle"

SimInit ==
    /\ str1 \in SimStrings
    /\ str2 \in SimStrings
    /\ score = Rat(0, 1)
    /\ simpc = "call"
    /\ RankIdle
    /\ OuterIdle

Compare ==
    /\ simpc = "call"
    /\ score' = fuzzyMatchScore(str1, str2)
    /\ simpc' = "returned"
    /\ UNCHANGED <<str1, str2>>
    /\ UNCHANGED rankVars
    /\ UNCHANGED outerVars

SimNext == Compare

SpecSim == SimInit /\ [][SimNext]_vars

\* -------------------------------------------- the normaliser on its own
\* the address texts: up to MaxPieces of these pieces in a row, and the
\* example of the specification
NormPieces ==
    {<<" ">>, <<".">>, <<"#">>, <<"e","a","s","t">>, <<"n","o","r","t","h">>,
     <<"e","r","n">>, <<"S","t","r","e","e","t">>}

RECURSIVE PiecesUpTo(_)
PiecesUpTo(n) ==
    IF n = 0 THEN {<<>>}
    ELSE LET shorterOnes == PiecesUpTo(n - 1)
         IN shorterOnes \cup {t \o piece : t \in shorterOnes, piece \in NormPieces}

TxtNorthMainStreet ==
    <<"1","2","3"," ","N","o","r","t","h"," ","M","a","i","n"," ","S","t","r","e","e","t">>

NormTexts == PiecesUpTo(MaxPieces) \cup {TxtNorthMainStreet}

NormInit ==
    /\ address \in NormTexts
    /\ normalized = <<>>
    /\ normpc = "call"
    /\ SimIdle
    /\ RankIdle
    /\ ClientIdle
    /\ FetchIdle
    /\ TokenIdle
    /\ ProxyIdle
    /\ RatesIdle
    /\ SharedIdle
    /\ TableIdle

Normalize ==
    /\ normpc = "call"
    /\ normalized' = normalizeAddress(address)
    /\ normpc' = "returned"
    /\ UNCHANGED address
    /\ UNCHANGED <<simVars, rankVars, clientVars, fetchVars, tokenVars, proxyVars, ratesVars, sharedVars, tableVars>>

NormNext == Normalize

SpecNorm == NormInit /\ [][NormNext]_vars

\* ------------------------------------------------ the client, api.ts
\* the text of v where a string is expected (numbers here are whole and not negative)
ToText(v) == IF v.t = "number" THEN NumText(v.n) ELSE v.s

\* a number with a fraction: n holds the exact value <<numerator, denominator>>
Float(q) == [t |-> "number", s |-> <<>>, n |-> q, m |-> <<>>]

\* the position of the first digit of s: after a sign, if there is one
AfterSign(s) == IF s # <<>> /\ s[1] \in {"-", "+"} THEN 2 ELSE 1

\* parseInt(v, 10): the white space at the start is skipped, then a sign and
\* the digits up to the first other character are read; NaN without a digit
parseInt(v) ==
    The({The({IF d.i = AfterSign(s) THEN [nan |-> TRUE, n |-> 0]
              ELSE [nan |-> FALSE, n |-> IF s[1] = "-" THEN 0 - d.n ELSE d.n] :
              d \in {ParseDigits(s, AfterSign(s), 0)}}) :
         s \in {trimStart(ToText(v))}})

\* parseFloat(v): a sign, digits, and a fraction after a point (the texts here
\* have no exponent); NaN without a digit.  The value is exact.
parseFloat(v) ==
    The({The({The({IF whole.i = AfterSign(s) /\ frac.i <= whole.i + 1
                   THEN [nan |-> TRUE, q |-> Rat(0, 1)]
                   ELSE IF whole.i <= Len(s) /\ s[whole.i] = "."
                   THEN [nan |-> FALSE,
                         q |-> Rat((IF s[1] = "-" THEN 0 - frac.n ELSE frac.n),
                                   10 ^ (frac.i - (whole.i + 1)))]
                   ELSE [nan |-> FALSE,
                         q |-> Rat((IF s[1] = "-" THEN 0 - whole.n ELSE whole.n), 1)] :
                   frac \in {IF whole.i <= Len(s) /\ s[whole.i] = "."
                             THEN ParseDigits(s, whole.i + 1, whole.n)
                             ELSE whole}}) :
              whole \in {ParseDigits(s, AfterSign(s), 0)}}) :
         s \in {trimStart(ToText(v))}})

MinYear == 1900
MaxYear == 2030

\* lines 275-283
YearBuilt(record) ==
    IF Truthy(record.Year_Built__c)
    THEN The({IF ~parsed.nan /\ parsed.n >= MinYear /\ parsed.n <= MaxYear
              THEN Num(parsed.n) ELSE Null :
              parsed \in {parseInt(record.Year_Built__c)}})
    ELSE Null

\* lines 276-290
SquareFootage(record) ==
    IF Truthy(record.Net_RSF__c)
    THEN The({IF ~parsed.nan /\ RatLT(Rat(0, 1), parsed.q)
              THEN Float(parsed.q) ELSE Null :
              parsed \in {parseFloat(record.Net_RSF__c)}})
    ELSE Null

\* lines 292-297
Metadata(record) ==
    [yearBuilt |-> YearBuilt(record),
     squareFootage |-> SquareFootage(record),
     matched |-> TRUE,
     matchScore |-> record.combinedScore]

\* the raw values of the two columns
Txt1850 == <<"1","8","5","0">>
Txt2031 == <<"2","0","3","1">>
Txt2005abc == <<"2","0","0","5","a","b","c">>
Txt1999p9 == <<"1","9","9","9",".","9">>
TxtAbc == <<"a","b","c">>
Txt1200p5 == <<"1","2","0","0",".","5">>
TxtZero == <<"0">>
TxtMinus5 == <<"-","5">>

YearRaws ==
    {Str(Txt2005), Str(Txt1850), Str(Txt2031), Str(Txt2005abc), Str(Txt1999p9),
     Str(TxtAbc), Str(<<>>), Null, Num(2005), Num(1850)}

RsfRaws ==
    {Str(Txt1200p5), Str(TxtZero), Str(TxtMinus5), Str(TxtAbc), Null, Num(50000), Num(0)}

\* a match as the database-query function returns it
ScoredMatch(year, rsf) ==
    [Name |-> TxtX, Year_Built__c |-> year, Net_RSF__c |-> rsf, ShippingAddress |-> Null,
     nameScore |-> Rat(0, 1), addressScore |-> Rat(1, 1), combinedScore |-> Rat(6, 10),
     parsedStoreName |-> TxtX, parsedAddress |-> TxtOakAve]

ScoredMatches == {ScoredMatch(year, rsf) : year \in YearRaws, rsf \in RsfRaws}

\* { data, error } of supabase.functions.invoke: an error, a body without
\* success, or a body with data that is null, one match or an array of matches
Replies ==
    {[error |-> TRUE, success |-> FALSE, kind |-> "null", items |-> <<>>],
     [error |-> FALSE, success |-> FALSE, kind |-> "null", items |-> <<>>],
     [error |-> FALSE, success |-> TRUE, kind |-> "null", items |-> <<>>]}
    \cup {[error |-> FALSE, success |-> TRUE, kind |-> "object", items |-> <<x>>] : x \in ScoredMatches}
    \cup {[error |-> FALSE, success |-> TRUE, kind |-> "array", items |-> xs] :
              xs \in SeqsUpTo(ScoredMatches, MaxMatches)}

ClientInit ==
    /\ reply \in Replies
    /\ metadata = Null
    /\ matchList = <<>>
    /\ clientpc = "call"
    /\ SimIdle
    /\ RankIdle
    /\ NormIdle
    /\ FetchIdle
    /\ TokenIdle
    /\ ProxyIdle
    /\ RatesIdle
    /\ SharedIdle
    /\ TableIdle

\* getSalesforceMetadataByAddress of api.ts, lines 254-301
GetMetadata ==
    /\ clientpc = "call"
    /\ metadata' = IF reply.error \/ ~reply.success THEN Null
                   ELSE IF reply.kind = "null" \/ (reply.kind = "array" /\ Len(reply.items) = 0)
                   THEN Null
                   ELSE Metadata(reply.items[1])
    /\ clientpc' = "metadata"
    /\ UNCHANGED <<reply, matchList>>
    /\ UNCHANGED <<simVars, rankVars, normVars, fetchVars, tokenVars, proxyVars, ratesVars, sharedVars, tableVars>>

\* getSalesforceMatches, lines 315-336
GetMatches ==
    /\ clientpc = "call"
    /\ matchList' = IF reply.error \/ ~reply.success THEN <<>>
                    ELSE IF reply.kind # "array" THEN <<>>
                    ELSE reply.items
    /\ clientpc' = "matches"
    /\ UNCHANGED <<reply, metadata>>
    /\ UNCHANGED <<simVars, rankVars, normVars, fetchVars, tokenVars, proxyVars, ratesVars, sharedVars, tableVars>>

ClientNext == GetMetadata \/ GetMatches

SpecClient == ClientInit /\ [][ClientNext]_vars

\* ------------------------------- fetchHistoricalData, stortrack-api
\* the status of a response; NoResponse stands for a fetch that throws
NoResponse == 0
OkStatus == 200
RateLimited == 429
ServerErrors == {500, 503, 404}
OtherStatuses == {400, 401}
Statuses == {NoResponse, OkStatus, RateLimited} \cup ServerErrors \cup OtherStatuses

NoToken == <<>>
BearerToken == <<"B","e","a","r","e","r"," ","t">>

NoError == [message |-> "", status |-> 0]
\* new Error(`StorTrack API error: ${response.status}`)
ApiError(status) == [message |-> "StorTrack API error", status |-> status]

\* the body of a response: an array of rows, one row, or text that is no JSON
Row(id) == [t |-> "object", items |-> <<>>, id |-> id]
Arr(items) == [t |-> "array", items |-> items, id |-> 0]
NotJson == [t |-> "text", items |-> <<>>, id |-> 0]
NoBody == [t |-> "undefined", items |-> <<>>, id |-> 0]
JsonBodies == {Arr(<<>>), Arr(<<Row(1), Row(2)>>), Row(1)}

\* the rejection of response.json()
SyntaxError == [message |-> "Unexpected token", status |-> OkStatus]

\* the value returned without the test of Array.isArray
AsReceived(value) == value

\* Array.isArray(result) ? result : [result]
AsArray(value) == IF value.t = "array" THEN value ELSE Arr(<<value>>)

\* maxRetries is 3 unless the caller passes another number
FetchInit ==
    /\ token \in {NoToken, BearerToken}
    /\ maxRetries \in 1..MaxAttempts
    /\ attempt = 0
    /\ responses = <<>>
    /\ thrown = NoError
    /\ fetchpc = "start"
    /\ bodies = <<>>
    /\ data = NoBody
    /\ SimIdle
    /\ RankIdle
    /\ NormIdle
    /\ ClientIdle
    /\ TokenIdle
    /\ ProxyIdle
    /\ RatesIdle
    /\ SharedIdle
    /\ TableIdle

\* lines 135-138: without a token the call fails
Authenticate ==
    /\ fetchpc = "start"
    /\ IF token = NoToken
       THEN /\ fetchpc' = "threw"
            /\ thrown' = [message |-> "Failed to authenticate with StorTrack API", status |-> 0]
       ELSE /\ fetchpc' = "loop"
            /\ thrown' = thrown
    /\ UNCHANGED <<token, maxRetries, attempt, responses, bodies, data>>
    /\ UNCHANGED <<simVars, rankVars, normVars, clientVars, tokenVars, proxyVars, ratesVars, sharedVars, tableVars>>

\* a catch that never lets the error leave the call
CaughtNeverThrows(error) ==
    /\ fetchpc' = "loop"
    /\ thrown' = thrown
    /\ attempt' = attempt + 1

\* the catch of lines 184-187: the error leaves the call on the last attempt,
\* on any other attempt the loop goes on after a pause
Caught(error) ==
    IF attempt = maxRetries - 1
    THEN /\ fetchpc' = "threw"
         /\ thrown' = error
         /\ attempt' = attempt
    ELSE /\ fetchpc' = "loop"
         /\ thrown' = thrown
         /\ attempt' = attempt + 1

\* lines 144-163: the response is ok, its body is returned, as an array
RespondOk ==
    /\ fetchpc = "loop"
    /\ attempt < maxRetries
    /\ \E received \in JsonBodies :
          /\ bodies' = Append(bodies, received)
          /\ data' = AsArray(received)
    /\ responses' = Append(responses, OkStatus)
    /\ fetchpc' = "returned"
    /\ UNCHANGED <<token, maxRetries, attempt, thrown>>
    /\ UNCHANGED <<simVars, rankVars, normVars, clientVars, tokenVars, proxyVars, ratesVars, sharedVars, tableVars>>

\* lines 160-161 and 184-187: the response is ok and response.json() rejects,
\* inside the try
RespondUnparsable ==
    /\ fetchpc = "loop"
    /\ attempt < maxRetries
    /\ responses' = Append(responses, OkStatus)
    /\ bodies' = Append(bodies, NotJson)
    /\ Caught(SyntaxError)
    /\ UNCHANGED <<token, maxRetries, data>>
    /\ UNCHANGED <<simVars, rankVars, normVars, clientVars, tokenVars, proxyVars, ratesVars, sharedVars, tableVars>>

\* lines 166-170: status 429, wait a minute and go on with the next attempt
RespondRateLimited ==
    /\ fetchpc = "loop"
    /\ attempt < maxRetries
    /\ responses' = Append(responses, RateLimited)
    /\ bodies' = Append(bodies, NoBody)
    /\ attempt' = attempt + 1
    /\ UNCHANGED <<token, maxRetries, thrown, fetchpc, data>>
    /\ UNCHANGED <<simVars, rankVars, normVars, clientVars, tokenVars, proxyVars, ratesVars, sharedVars, tableVars>>

\* lines 173-183: status 500, 503 or 404: the next attempt after a pause, and
\* on the last attempt the throw of line 183, inside the try
RespondServerError ==
    /\ fetchpc = "loop"
    /\ attempt < maxRetries
    /\ \E status \in ServerErrors :
          /\ responses' = Append(responses, status)
          /\ IF attempt < maxRetries - 1
             THEN /\ attempt' = attempt + 1
                  /\ UNCHANGED <<thrown, fetchpc>>
             ELSE Caught(ApiError(status))
    /\ bodies' = Append(bodies, NoBody)
    /\ UNCHANGED <<token, maxRetries, data>>
    /\ UNCHANGED <<simVars, rankVars, normVars, clientVars, tokenVars, proxyVars, ratesVars, sharedVars, tableVars>>

\* lines 181-187: any other status: the throw of line 183, inside the try
RespondOther ==
    /\ fetchpc = "loop"
    /\ attempt < maxRetries
    /\ \E status \in OtherStatuses :
          /\ responses' = Append(responses, status)
          /\ Caught(ApiError(status))
    /\ bodies' = Append(bodies, NoBody)
    /\ UNCHANGED <<token, maxRetries, data>>
    /\ UNCHANGED <<simVars, rankVars, normVars, clientVars, tokenVars, proxyVars, ratesVars, sharedVars, tableVars>>

\* lines 144 and 184-187: fetch throws
NetworkError ==
    /\ fetchpc = "loop"
    /\ attempt < maxRetries
    /\ responses' = Append(responses, NoResponse)
    /\ Caught([message |-> "fetch failed", status |-> NoResponse])
    /\ bodies' = Append(bodies, NoBody)
    /\ UNCHANGED <<token, maxRetries, data>>
    /\ UNCHANGED <<simVars, rankVars, normVars, clientVars, tokenVars, proxyVars, ratesVars, sharedVars, tableVars>>

\* line 190: the loop ends without a return
Exhausted ==
    /\ fetchpc = "loop"
    /\ attempt >= maxRetries
    /\ fetchpc' = "threw"
    /\ thrown' = [message |-> "Max retries exceeded", status |-> 0]
    /\ UNCHANGED <<token, maxRetries, attempt, responses, bodies, data>>
    /\ UNCHANGED <<simVars, rankVars, normVars, clientVars, tokenVars, proxyVars, ratesVars, sharedVars, tableVars>>

FetchNext ==
    \/ Authenticate
    \/ RespondOk
    \/ RespondUnparsable
    \/ RespondRateLimited
    \/ RespondServerError
    \/ RespondOther
    \/ NetworkError
    \/ Exhausted

SpecFetch == FetchInit /\ [][FetchNext]_vars

\* every request gets its response or its exception, every pause ends
SpecFetchLive == SpecFetch /\ WF_vars(FetchNext)

\* -------------------------------------- getAuthToken, stortrack-api
\* time is counted in minutes: 55 * 60 * 1000 ms
TokenLifetime == 55

\* the token the auth endpoint grants at time t
Granted(t) == <<"Bearer", t>>

\* a cache that is still used at the time of expiry
CacheValidInclusive(cached, expiry, t) == cached # NoToken /\ t <= expiry

\* cachedToken && Date.now() < tokenExpiry
CacheValid(cached, expiry, t) == cached # NoToken /\ t < expiry

\* lines 14-15; the clock shows some time after 0
TokenInit ==
    /\ now = 1
    /\ cachedToken = NoToken
    /\ tokenExpiry = 0
    /\ returned = NoToken
    /\ contacted = FALSE
    /\ calls = 0
    /\ tokpc = "idle"
    /\ SimIdle
    /\ RankIdle
    /\ NormIdle
    /\ ClientIdle
    /\ FetchIdle
    /\ ProxyIdle
    /\ RatesIdle
    /\ SharedIdle
    /\ TableIdle

\* a minute passes, between two calls or while a call waits for the endpoint
Tick ==
    /\ tokpc \in {"idle", "awaiting"}
    /\ now < MaxTime
    /\ now' = now + 1
    /\ UNCHANGED <<cachedToken, tokenExpiry, returned, contacted, calls, tokpc>>
    /\ UNCHANGED <<simVars, rankVars, normVars, clientVars, fetchVars, proxyVars, ratesVars, sharedVars, tableVars>>

\* lines 19-21: the cached token is returned
CallCached ==
    /\ tokpc = "idle"
    /\ calls < MaxCalls
    /\ CacheValid(cachedToken, tokenExpiry, now)
    /\ returned' = cachedToken
    /\ contacted' = FALSE
    /\ calls' = calls + 1
    /\ UNCHANGED <<now, cachedToken, tokenExpiry, tokpc>>
    /\ UNCHANGED <<simVars, rankVars, normVars, clientVars, fetchVars, proxyVars, ratesVars, sharedVars, tableVars>>

\* lines 19-34: no valid token, the request goes to the auth endpoint
CallRequest ==
    /\ tokpc = "idle"
    /\ calls < MaxCalls
    /\ ~CacheValid(cachedToken, tokenExpiry, now)
    /\ contacted' = TRUE
    /\ calls' = calls + 1
    /\ tokpc' = "awaiting"
    /\ UNCHANGED <<now, cachedToken, tokenExpiry, returned>>
    /\ UNCHANGED <<simVars, rankVars, normVars, clientVars, fetchVars, proxyVars, ratesVars, sharedVars, tableVars>>

\* lines 36-43: the endpoint grants a token, it is cached and returned
AuthGranted ==
    /\ tokpc = "awaiting"
    /\ cachedToken' = Granted(now)
    /\ tokenExpiry' = now + TokenLifetime
    /\ returned' = cachedToken'
    /\ tokpc' = "idle"
    /\ UNCHANGED <<now, contacted, calls>>
    /\ UNCHANGED <<simVars, rankVars, normVars, clientVars, fetchVars, proxyVars, ratesVars, sharedVars, tableVars>>

\* lines 36-50: no ok response, no token in the body, or fetch throws: null
AuthRefused ==
    /\ tokpc = "awaiting"
    /\ returned' = NoToken
    /\ tokpc' = "idle"
    /\ UNCHANGED <<now, cachedToken, tokenExpiry, contacted, calls>>
    /\ UNCHANGED <<simVars, rankVars, normVars, clientVars, fetchVars, proxyVars, ratesVars, sharedVars, tableVars>>

TokenNext ==
    \/ Tick
    \/ CallCached
    \/ CallRequest
    \/ AuthGranted
    \/ AuthRefused

SpecToken == TokenInit /\ [][TokenNext]_vars

\* ------------------------------- queryDatabase through database-query
TxtSelectTop == <<"S","E","L","E","C","T"," ","T","O","P"," ">>
TxtFromDbo == <<" ","*"," ","F","R","O","M"," ","d","b","o",".">>
TxtWhere == <<" ","W","H","E","R","E"," ">>
TxtAnd == <<" ","A","N","D"," ">>
TxtEqQuote == <<" ","="," ","'">>
TxtQuote == <<"'">>
TxtStortrack == <<"S","t","o","r","t","r","a","c","k">>
TxtStores == <<"S","t","o","r","e","s">>
TxtRates == <<"R","a","t","e","s">>
TxtState == <<"S","t","a","t","e">>
TxtCityKey == <<"C","i","t","y">>
TxtTX == <<"T","X">>
TxtAustin == <<"A","u","s","t","i","n">>

DefaultLimit == 1000

\* `${key} = '${value}'`
Condition(entry) == entry.k \o TxtEqQuote \o ToText(entry.v) \o TxtQuote

\* Object.entries(filters).map(...).join(' AND '), from entry i on
RECURSIVE JoinConditions(_, _)
JoinConditions(entries, i) ==
    IF i > Len(entries) THEN <<>>
    ELSE IF i = Len(entries) THEN Condition(entries[i])
    ELSE Condition(entries[i]) \o TxtAnd \o JoinConditions(entries, i + 1)

\* lines 109-121: the SQL text of queryDatabase(database, table, filters, limit)
QuerySql(table, filters, limit) ==
    TxtSelectTop \o (IF Truthy(limit) THEN ToText(limit) ELSE NumText(DefaultLimit))
        \o TxtFromDbo \o ToText(table)
        \o (IF Truthy(filters) /\ Len(filters.m) > 0
            THEN TxtWhere \o JoinConditions(filters.m, 1)
            ELSE <<>>)

\* a Record<string, string> of up to MaxParams entries with distinct keys
ParamKeys == {TxtState, TxtCityKey}
ParamValues == {TxtTX, TxtAustin}
ParamRecords ==
    {Obj(es) : es \in {e \in SeqsUpTo({Member(k, Str(v)) : k \in ParamKeys, v \in ParamValues}, MaxParams) :
                           \A i, j \in DOMAIN e : e[i].k = e[j].k => i = j}}

Tables == {TxtStores, TxtRates}

\* the members that JSON.stringify keeps: an undefined member is left out
Defined(members) == SelectSeq(members, LAMBDA mem : mem.v.t # "undefined")

RequestBody(action, ps) ==
    Obj(<<Member("action", Str(action)), Member("params", Obj(Defined(ps)))>>)

ProxyInit ==
    /\ queryParams = Undefined
    /\ requestBody = Undefined
    /\ sql = <<>>
    /\ proxypc = "client"
    /\ SimIdle
    /\ RankIdle
    /\ NormIdle
    /\ ClientIdle
    /\ FetchIdle
    /\ TokenIdle
    /\ RatesIdle
    /\ SharedIdle
    /\ TableIdle

\* api.ts lines 193-196: queryMCPDatabase(database, table, queryParams)
QueryMCPDatabase ==
    /\ proxypc = "client"
    /\ \E table \in Tables, qp \in ParamRecords \cup {Undefined} :
        /\ queryParams' = qp
        /\ requestBody' = RequestBody("queryDatabase",
                       <<Member("database", Str(TxtStortrack)),
                         Member("table", Str(table)),
                         Member("queryParams", qp)>>)
    /\ proxypc' = "request"
    /\ UNCHANGED sql
    /\ UNCHANGED <<simVars, rankVars, normVars, clientVars, fetchVars, tokenVars, ratesVars, sharedVars, tableVars>>

\* a request to the function that names its filters as the server reads them
DirectRequest ==
    /\ proxypc = "client"
    /\ \E table \in Tables, fs \in ParamRecords \cup {Undefined}, limit \in {Undefined, Num(5)} :
        requestBody' = RequestBody("queryDatabase",
                    <<Member("database", Str(TxtStortrack)),
                      Member("table", Str(table)),
                      Member("filters", fs),
                      Member("limit", limit)>>)
    /\ proxypc' = "request"
    /\ UNCHANGED <<queryParams, sql>>
    /\ UNCHANGED <<simVars, rankVars, normVars, clientVars, fetchVars, tokenVars, ratesVars, sharedVars, tableVars>>

\* lines 361, 382-384 and 109-121: the server builds the SQL and sends it
ServeQueryDatabase ==
    /\ proxypc = "request"
    /\ GetProp(requestBody, "action") = Str("queryDatabase")
    /\ \E ps \in {GetProp(requestBody, "params")} :
        sql' = QuerySql(GetProp(ps, "table"), GetProp(ps, "filters"), GetProp(ps, "limit"))
    /\ proxypc' = "sent"
    /\ UNCHANGED <<queryParams, requestBody>>
    /\ UNCHANGED <<simVars, rankVars, normVars, clientVars, fetchVars, tokenVars, ratesVars, sharedVars, tableVars>>

ProxyNext ==
    \/ QueryMCPDatabase
    \/ DirectRequest
    \/ ServeQueryDatabase

SpecProxy == ProxyInit /\ [][ProxyNext]_vars

\* ----------------------- getTrailing12MonthRates through database-query
\* a row of the rate query; a date is the number of its day, 0 is no date
RateRow(store, date) ==
    [t |-> "object", items |-> <<>>, id |-> 0, Store_ID |-> store, Date_Collected |-> date]

\* an object with the one property key
Holder(key, value) == [t |-> "object", items |-> <<>>, id |-> 0, key |-> key, value |-> value]

\* v[key]: undefined on an array and on an object without the property
Prop(v, key) ==
    IF v.t = "object" /\ "key" \in DOMAIN v /\ v.key = key THEN v.value ELSE NoBody

\* a value in a condition: undefined is false, an array or an object true
IsSet(v) == v.t \in {"object", "array"}

\* lines 39-56: what universalQuery returns for the body of the response
universalQuery(json) ==
    IF IsSet(Prop(json, "results")) /\ Prop(json, "results").t = "array"
    THEN Prop(json, "results")
    ELSE IF json.t = "array" THEN json
    ELSE IF IsSet(Prop(json, "data")) /\ Prop(json, "data").t = "array"
    THEN Prop(json, "data")
    ELSE json

\* line 445: rawResult.results || []
RowsOf(rawResult) ==
    IF IsSet(Prop(rawResult, "results")) THEN Prop(rawResult, "results") ELSE Arr(<<>>)

\* lines 468-494: the entry pushed for a row, its store and its date
RateEntry(row) == [storeId |-> row.Store_ID, date |-> row.Date_Collected]

\* lines 448-499: the entries of the rows, by store, in the order of the rows
GroupRates(rowSeq) ==
    [s \in {rowSeq[i].Store_ID : i \in DOMAIN rowSeq} |->
        The({[i \in DOMAIN sel |-> RateEntry(sel[i])] :
             sel \in {SelectSeq(rowSeq, LAMBDA r : r.Store_ID = s)}})]

\* Array.from(dates).sort().reverse(): the dates of a set, latest first
RECURSIVE Descending(_)
Descending(dates) ==
    IF dates = {} THEN <<>>
    ELSE The({<<d>> \o Descending(dates \ {d}) :
              d \in {CHOOSE x \in dates : \A y \in dates : y <= x}})

\* lines 449-505: the dates of each store
GroupDates(rowSeq) ==
    [s \in {rowSeq[i].Store_ID : i \in DOMAIN rowSeq} |->
        Descending({rowSeq[i].Date_Collected :
                    i \in {j \in DOMAIN rowSeq : /\ rowSeq[j].Store_ID = s
                                                /\ rowSeq[j].Date_Collected # 0}})]

RateRows == {RateRow(s, d) : s \in {1, 2}, d \in {0, 1, 2}}
RowArrays == {Arr(rs) : rs \in SeqsUpTo(RateRows, MaxRows)}

\* the bodies of the data service: the documented { results, row_count }, a
\* bare array, { data }, and results nested in results
RateBodies ==
    {Holder("results", a) : a \in RowArrays} \cup RowArrays
        \cup {Holder("data", a) : a \in RowArrays}
        \cup {Holder("results", Holder("results", a)) : a \in RowArrays}

RatesInit ==
    /\ storeIds \in {<<>>, <<1>>, <<1, 2>>}
    /\ jsonResponse = NoBody
    /\ ratesByStore = <<>>
    /\ datesByStore = <<>>
    /\ ratespc = "request"
    /\ SimIdle
    /\ RankIdle
    /\ NormIdle
    /\ ClientIdle
    /\ FetchIdle
    /\ TokenIdle
    /\ ProxyIdle
    /\ SharedIdle
    /\ TableIdle

\* lines 406-409: without storeIds the request fails
RejectNoStores ==
    /\ ratespc = "request"
    /\ Len(storeIds) = 0
    /\ ratespc' = "threw"
    /\ UNCHANGED <<storeIds, jsonResponse, ratesByStore, datesByStore>>
    /\ UNCHANGED <<simVars, rankVars, normVars, clientVars, fetchVars, tokenVars, proxyVars, sharedVars, tableVars>>

\* lines 31-35: the data service answers with an error status
RatesQueryFails ==
    /\ ratespc = "request"
    /\ Len(storeIds) > 0
    /\ ratespc' = "threw"
    /\ UNCHANGED <<storeIds, jsonResponse, ratesByStore, datesByStore>>
    /\ UNCHANGED <<simVars, rankVars, normVars, clientVars, fetchVars, tokenVars, proxyVars, sharedVars, tableVars>>

\* lines 444-507: the data service answers, the rows are grouped by store;
\* for (const row of rows) throws when rows is an object that is no array
ServeRates ==
    /\ ratespc = "request"
    /\ Len(storeIds) > 0
    /\ \E json \in RateBodies :
          /\ jsonResponse' = json
          /\ \E fetched \in {RowsOf(universalQuery(json))} :
                IF fetched.t = "array"
                THEN /\ ratesByStore' = GroupRates(fetched.items)
                     /\ datesByStore' = GroupDates(fetched.items)
                     /\ ratespc' = "done"
                ELSE /\ UNCHANGED <<ratesByStore, datesByStore>>
                     /\ ratespc' = "threw"
    /\ UNCHANGED storeIds
    /\ UNCHANGED <<simVars, rankVars, normVars, clientVars, fetchVars, tokenVars, proxyVars, sharedVars, tableVars>>

RatesNext ==
    \/ RejectNoStores
    \/ RatesQueryFails
    \/ ServeRates

SpecRates == RatesInit /\ [][RatesNext]_vars

\* ----------------------- concurrent requests and the shared token cache
\* serve starts a handler for each request; a handler runs until its next
\* await, so the requests interleave at the awaits of getAuthToken: the one
\* of fetch (line 26) and the one of response.json() (line 37).
Requests == 1..MaxRequests

\* the token in the response to request r
IssuedTo(r) == <<"Bearer", r>>

\* a request: where it stands, and what getAuthToken returned to it
Request(at, returnedToken) == [at |-> at, returned |-> returnedToken]

SharedInit ==
    /\ requests = [r \in Requests |-> Request("new", NoToken)]
    /\ now = 1
    /\ cachedToken = NoToken
    /\ tokenExpiry = 0
    /\ returned = NoToken
    /\ contacted = FALSE
    /\ calls = 0
    /\ tokpc = "shared"
    /\ SimIdle
    /\ RankIdle
    /\ NormIdle
    /\ ClientIdle
    /\ FetchIdle
    /\ ProxyIdle
    /\ RatesIdle
    /\ TableIdle

\* time passes while requests wait
Elapse ==
    /\ tokpc = "shared"
    /\ now + JumpMinutes <= 1 + MaxJumps * JumpMinutes
    /\ now' = now + JumpMinutes
    /\ UNCHANGED <<cachedToken, tokenExpiry, returned, contacted, calls, tokpc, requests>>
    /\ UNCHANGED <<simVars, rankVars, normVars, clientVars, fetchVars, proxyVars, ratesVars, tableVars>>

\* lines 19-34: a request calls getAuthToken: the cached token, or the fetch
StartCall ==
    /\ tokpc = "shared"
    /\ \E r \in Requests :
          /\ requests[r].at = "new"
          /\ requests' = [requests EXCEPT ![r] =
                 IF CacheValid(cachedToken, tokenExpiry, now)
                 THEN Request("done", cachedToken)
                 ELSE Request("fetch", NoToken)]
    /\ UNCHANGED tokenVars
    /\ UNCHANGED <<simVars, rankVars, normVars, clientVars, fetchVars, proxyVars, ratesVars, tableVars>>

\* lines 26-37: the response is ok, the handler awaits its body
ResponseOk ==
    /\ \E r \in Requests :
          /\ requests[r].at = "fetch"
          /\ requests' = [requests EXCEPT ![r] = Request("json", NoToken)]
    /\ UNCHANGED tokenVars
    /\ UNCHANGED <<simVars, rankVars, normVars, clientVars, fetchVars, proxyVars, ratesVars, tableVars>>

\* lines 36-50: no ok response, no token in the body, or an exception: null
CallFails ==
    /\ \E r \in Requests :
          /\ requests[r].at \in {"fetch", "json"}
          /\ requests' = [requests EXCEPT ![r] = Request("done", NoToken)]
    /\ UNCHANGED tokenVars
    /\ UNCHANGED <<simVars, rankVars, normVars, clientVars, fetchVars, proxyVars, ratesVars, tableVars>>

\* the token written, the expiry only when none was written before
CacheTokenOnly ==
    /\ \E r \in Requests :
          /\ requests[r].at = "json"
          /\ cachedToken' = IssuedTo(r)
          /\ tokenExpiry' = IF tokenExpiry = 0 THEN now + TokenLifetime ELSE tokenExpiry
          /\ requests' = [requests EXCEPT ![r] = Request("done", cachedToken')]
    /\ UNCHANGED <<now, returned, contacted, calls, tokpc>>
    /\ UNCHANGED <<simVars, rankVars, normVars, clientVars, fetchVars, proxyVars, ratesVars, tableVars>>

\* lines 37-43: the body holds a token; cachedToken and tokenExpiry are
\* written and the token returned with no await in between
CacheToken ==
    /\ \E r \in Requests :
          /\ requests[r].at = "json"
          /\ cachedToken' = IssuedTo(r)
          /\ tokenExpiry' = now + TokenLifetime
          /\ requests' = [requests EXCEPT ![r] = Request("done", cachedToken')]
    /\ UNCHANGED <<now, returned, contacted, calls, tokpc>>
    /\ UNCHANGED <<simVars, rankVars, normVars, clientVars, fetchVars, proxyVars, ratesVars, tableVars>>

SharedNext ==
    \/ Elapse
    \/ StartCall
    \/ ResponseOk
    \/ CallFails
    \/ CacheToken

SpecShared == SharedInit /\ [][SharedNext]_vars

\* ------------------------------ the table of StepDataVisualization.tsx
\* The component's state is kept by React.  A setter called in a handler
\* queues an update; the next render applies the queued updates in order and
\* makes the handlers anew, which then see the values of that render.
SortFields == {"storeName", "size", "walkInPrice", "onlinePrice", "date"}
StoreFilters == {"all", "1", "2"}

Flip(direction) == IF direction = "asc" THEN "desc" ELSE "asc"

SetField(field) == [set |-> "sortField", to |-> field]
SetDirection(direction) == [set |-> "sortDirection", to |-> direction]
\* setSortDirection(prev => prev === 'asc' ? 'desc' : 'asc')
ToggleDirection == [set |-> "sortDirection", to |-> "toggle"]
SetFilter(store) == [set |-> "filterStore", to |-> store]

\* lines 93-100: the updates handleSort(field) queues, seen being the
\* sortField of the render that made the handler
handleSort(seen, field) ==
    IF seen = field THEN <<ToggleDirection>>
    ELSE <<SetField(field), SetDirection("asc")>>

\* the state after the queued updates, from update i on
RECURSIVE Applied(_, _, _)
Applied(state, queue, i) ==
    IF i > Len(queue) THEN state
    ELSE Applied(
             CASE queue[i].set = "sortField" -> [state EXCEPT !.sortField = queue[i].to]
               [] queue[i].set = "filterStore" -> [state EXCEPT !.filterStore = queue[i].to]
               [] OTHER -> [state EXCEPT !.sortDirection =
                                IF queue[i].to = "toggle" THEN Flip(state.sortDirection)
                                ELSE queue[i].to],
             queue, i + 1)

\* lines 50-52
TableInit ==
    /\ filterStore = "all"
    /\ sortField = "storeName"
    /\ sortDirection = "asc"
    /\ seenField = "storeName"
    /\ updates = <<>>
    /\ clicked = <<>>
    /\ SimIdle
    /\ RankIdle
    /\ NormIdle
    /\ ClientIdle
    /\ FetchIdle
    /\ TokenIdle
    /\ ProxyIdle
    /\ RatesIdle
    /\ SharedIdle

\* lines 212-238: a click on a column header
ClickHeader ==
    /\ Len(clicked) < MaxClicks
    /\ \E field \in SortFields :
          /\ updates' = updates \o handleSort(seenField, field)
          /\ clicked' = Append(clicked, field)
    /\ UNCHANGED <<filterStore, sortField, sortDirection, seenField>>
    /\ UNCHANGED <<simVars, rankVars, normVars, clientVars, fetchVars, tokenVars, proxyVars, ratesVars, sharedVars>>

\* line 183: another store is chosen in the filter
SelectStore ==
    /\ clicked # <<>>
    /\ \E store \in StoreFilters :
          /\ store # Applied([filterStore |-> filterStore, sortField |-> sortField,
                              sortDirection |-> sortDirection], updates, 1).filterStore
          /\ Len(SelectSeq(updates, LAMBDA u : u.set = "filterStore")) = 0
          /\ updates' = Append(updates, SetFilter(store))
    /\ UNCHANGED <<filterStore, sortField, sortDirection, seenField, clicked>>
    /\ UNCHANGED <<simVars, rankVars, normVars, clientVars, fetchVars, tokenVars, proxyVars, ratesVars, sharedVars>>

\* lines 50-100: the component renders again with the queued updates applied
Render ==
    /\ updates # <<>>
    /\ \E next \in {Applied([filterStore |-> filterStore, sortField |-> sortField,
                             sortDirection |-> sortDirection], updates, 1)} :
          /\ filterStore' = next.filterStore
          /\ sortField' = next.sortField
          /\ sortDirection' = next.sortDirection
          /\ seenField' = next.sortField
    /\ updates' = <<>>
    /\ UNCHANGED clicked
    /\ UNCHANGED <<simVars, rankVars, normVars, clientVars, fetchVars, tokenVars, proxyVars, ratesVars, sharedVars>>

TableNext ==
    \/ ClickHeader
    \/ SelectStore
    \/ Render

SpecTable == TableInit /\ [][TableNext]_vars

\* ------------------------------------------- the scorer and the ranker
Init == SimInit \/ RankInit

Next == SimNext \/ RankNext

Spec == Init /\ [][Next]_vars

\* ------------------------------------------------------------ properties
\* the record of the last pass of the loop (a pass that throws leaves idx as it is)
Current == IF pc = "threw" THEN results[idx] ELSE results[idx - 1]

InUnit(r) == r[2] > 0 /\ 0 <= r[1] /\ r[1] <= r[2]

\* m is the entry made for record r
FromRecord(m, r) == SfName(r) = Str(m.Name) /\ r.ShippingAddress = m.ShippingAddress

\* C1: the ranker returns at most 10 matches, and they are in non-increasing
\* order of combinedScore.
C1_TopTenSorted ==
    pc = "done" =>
        /\ Len(result) <= 10
        /\ \A i \in 1..(Len(result) - 1) :
              RatLE(result[i + 1].combinedScore, result[i].combinedScore)

\* eleven candidates pass the filter, ten are returned, of unequal score
C1_Witness ==
    /\ pc = "done"
    /\ Len(scoredMatches) > 10
    /\ Len(result) = 10
    /\ RatLT(result[10].combinedScore, result[1].combinedScore)

\* C2: a candidate whose street was extracted is appended to the matches if
\* and only if its combinedScore is above 0.3 or its addressScore is above 0.5;
\* otherwise the matches stay as they are.
C2_InclusionFilter ==
    [][(pc = "loop" /\ pc' = "loop" /\ idx' = idx + 1 /\ branch' \in {"push", "drop"}) =>
          IF RatLT(<<3, 10>>, combinedScore') \/ RatLT(<<1, 2>>, addressScore')
          THEN /\ branch' = "push"
               /\ Len(scoredMatches') = Len(scoredMatches) + 1
               /\ SubSeq(scoredMatches', 1, Len(scoredMatches)) = scoredMatches
               /\ FromRecord(scoredMatches'[Len(scoredMatches')], results[idx])
               /\ scoredMatches'[Len(scoredMatches')].combinedScore = combinedScore'
               /\ scoredMatches'[Len(scoredMatches')].addressScore = addressScore'
          ELSE /\ branch' = "drop"
               /\ scoredMatches' = scoredMatches]_vars

\* a candidate with a street is left out after others were kept
C2_Witness ==
    /\ branch = "drop"
    /\ Truthy(sfStreet)
    /\ scoredMatches # <<>>
    /\ ~RatLT(<<3, 10>>, combinedScore)
    /\ RatLT(<<0, 1>>, combinedScore)

\* C3: in every returned match combinedScore = 0.4 * nameScore + 0.6 * addressScore,
\* nameScore is the larger of the similarities of the query's store name (as the
\* ranker holds it: lower case, trimmed, '' when absent) to the full name and to
\* the brand, and addressScore is the similarity of the normalized query street
\* to the normalized extracted street.
C3_ScoreDefinitions ==
    pc = "done" =>
        \A i \in DOMAIN result :
            /\ RatEq(result[i].combinedScore,
                     RatAdd(RatMul(<<4, 10>>, result[i].nameScore),
                            RatMul(<<6, 10>>, result[i].addressScore)))
            /\ RatEq(result[i].nameScore,
                     RatMax(fuzzyMatchScore(TargetStoreName(params), result[i].Name),
                            fuzzyMatchScore(TargetStoreName(params), result[i].parsedStoreName)))
            /\ RatEq(result[i].addressScore,
                     fuzzyMatchScore(normalizeAddress(params.street.s),
                                     normalizeAddress(result[i].parsedAddress)))

\* "Acme Storage - 456 Oak Ave" under the query (456 Oak Avenue, Acme): the
\* brand scores 1/3, above the full name, the street scores 1, together 11/15
C3_Witness ==
    /\ pc = "done"
    /\ \E i \in DOMAIN result :
          /\ result[i].Name = TxtAcmeOak
          /\ RatEq(result[i].nameScore, <<1, 3>>)
          /\ RatEq(result[i].addressScore, <<1, 1>>)
          /\ RatEq(result[i].combinedScore, <<11, 15>>)

\* C4: the similarity is in [0, 1] and is 0 when either input is empty; the
\* nameScore, addressScore and combinedScore of every match are in [0, 1].
C4_ScoresInUnitInterval ==
    /\ simpc = "returned" =>
          /\ InUnit(score)
          /\ (str1 = <<>> \/ str2 = <<>>) => score[1] = 0
    /\ \A i \in DOMAIN scoredMatches :
          /\ InUnit(scoredMatches[i].nameScore)
          /\ InUnit(scoredMatches[i].addressScore)
          /\ InUnit(scoredMatches[i].combinedScore)
    /\ \A i \in DOMAIN result :
          /\ InUnit(result[i].nameScore)
          /\ InUnit(result[i].addressScore)
          /\ InUnit(result[i].combinedScore)

\* the similarity of two empty strings was computed
C4_Witness == simpc = "returned" /\ str1 = <<>> /\ str2 = <<>> /\ score[1] = 0

\* C5: ranking never fails, whatever the candidate records hold: no exception
\* leaves the ranker.
C5_NeverThrows == pc # "threw"

\* a street can be established for the record
HasStreet(r) == SfName(r).t = "string" /\ Truthy(SfStreet(r, SfName(r).s))

\* C6: a candidate for which no street can be established is in no returned
\* match, whatever its name similarity; every returned match carries a street.
C6_NoStreetNoMatch ==
    pc = "done" =>
        /\ \A j \in DOMAIN result : result[j].parsedAddress # <<>>
        /\ \A i \in DOMAIN results :
              ~HasStreet(results[i]) =>
                  \A j \in DOMAIN result : ~FromRecord(result[j], results[i])

\* the record named "Acme", without any street, was ranked for the store name
\* "Acme" together with records that are returned
C6_Witness ==
    /\ pc = "done"
    /\ result # <<>>
    /\ params.storeName = Str(TxtAcme)
    /\ \E i \in DOMAIN results : results[i] = RecAcme

\* C7: when ShippingAddress is a mapping with a non-empty street, or the JSON
\* text or the single-quote text of such a mapping, the extracted street is
\* that street, whatever the Name field holds.
C7_ShippingAddressStreet ==
    branch # "none" =>
        \A a \in StreetMappings :
            Current.ShippingAddress \in {Obj(a), Str(JsonText(a)), Str(PyText(a))} =>
                sfStreet = GetProp(Obj(a), StreetKey)

\* rest holds one of the street words as a word of its own, in any case
HasStreetToken(rest) ==
    \E w \in StreetWords : \E i \in DOMAIN rest :
        /\ MatchAt(toLowerCase(rest), i, w)
        /\ WordBoundary(rest, i)
        /\ WordBoundary(rest, i + Len(w))

\* the ShippingAddress of r gives no street
NoShippingStreet(r) ==
    \A parsed \in {parsePythonDict(r.ShippingAddress)} :
        ~(Truthy(parsed) /\ Truthy(GetProp(parsed, StreetKey)))

\* C8: when ShippingAddress gives no street, a name "<brand> - <rest>" gives the
\* brand before the separator, and <rest> as the street exactly when it holds a
\* digit or one of the street words st, ave, rd, blvd, dr, way, lane, court;
\* otherwise the record has no street.  A name without separator is its own
\* brand and has no street.
C8_NameFallback ==
    (branch # "none" /\ Current.Name.t = "string" /\ NoShippingStreet(Current)) =>
        \A parts \in {split(Current.Name.s, Separator)} :
            /\ Len(parts) = 1 =>
                  /\ sfStoreBrand = Current.Name.s
                  /\ branch = "skip"
            /\ Len(parts) = 2 =>
                  /\ sfStoreBrand = trim(parts[1])
                  /\ IF HasDigit(parts[2]) \/ HasStreetToken(parts[2])
                     THEN sfStreet = Str(trim(parts[2]))
                     ELSE branch = "skip"

\* C9: the single-quote text {'street': '<v>', ...} gives the street <v>
\* character for character, also when a text in it holds None, True or False.
C9_LooseDialectPreserves ==
    branch # "none" =>
        \A a \in StreetMappings :
            Current.ShippingAddress = Str(PyText(a)) =>
                /\ sfStreet.t = "string"
                /\ sfStreet.s = GetProp(Obj(a), StreetKey).s

\* s in lower case without the white space at its two ends
Folded(s) ==
    LET inner == {i \in DOMAIN s : ~IsSpace(s[i])}
        lo == CHOOSE i \in inner : \A k \in inner : i <= k
        hi == CHOOSE i \in inner : \A k \in inner : k <= i
    IN IF inner = {} THEN <<>>
       ELSE [k \in 1..(hi - lo + 1) |-> LowerChar(s[lo + k - 1])]

\* C10: the similarity of two non-empty strings that are equal after lower
\* casing and trimming is 1; so is the similarity of a non-empty string to itself.
C10_EqualAfterFolding ==
    (simpc = "returned" /\ str1 # <<>> /\ str2 # <<>> /\ Folded(str1) = Folded(str2)) =>
        RatEq(score, <<1, 1>>)

\* two different strings, equal after folding, were compared
C10_Witness ==
    /\ simpc = "returned"
    /\ str1 # str2
    /\ Folded(str1) # <<>>
    /\ Folded(str1) = Folded(str2)
    /\ RatEq(score, <<1, 1>>)

\* C11: the similarity is symmetric: similarity(a, b) = similarity(b, a) for
\* all texts, the empty and the blank ones included.
C11_Symmetric ==
    simpc = "returned" => RatEq(score, fuzzyMatchScore(str2, str1))

\* two texts of the same length, neither part of the other, were compared
C11_Witness ==
    /\ simpc = "returned"
    /\ Len(str1) = Len(str2)
    /\ Folded(str1) # Folded(str2)
    /\ Len(Folded(str1)) = Len(Folded(str2))
    /\ score[1] > 0
    /\ RatLT(score, <<1, 1>>)

Min3(a, b, c) == Min2(Min2(a, b), c)

\* the Levenshtein distance of a and b: the least number of insertions,
\* deletions and substitutions of one character that turn a into b
Levenshtein(a, b) ==
    LET D[i \in 0..Len(a), j \in 0..Len(b)] ==
            IF i = 0 THEN j
            ELSE IF j = 0 THEN i
            ELSE Min3(D[i - 1, j] + 1, D[i, j - 1] + 1,
                      D[i - 1, j - 1] + (IF a[i] = b[j] THEN 0 ELSE 1))
    IN D[Len(a), Len(b)]

\* C12: for non-empty a and b that differ after lower casing and trimming, the
\* similarity is len(shorter)/len(longer) when the longer holds the shorter,
\* and 1 - lev/len(longer) otherwise, lev the Levenshtein distance.
C12_ContainmentOrLevenshtein ==
    (simpc = "returned" /\ str1 # <<>> /\ str2 # <<>> /\ Folded(str1) # Folded(str2)) =>
        \A a \in {Folded(str1)} : \A b \in {Folded(str2)} :
            \A longer \in {IF Len(a) >= Len(b) THEN a ELSE b} :
            \A shorter \in {IF Len(a) >= Len(b) THEN b ELSE a} :
                IF \E i \in 1..(Len(longer) - Len(shorter) + 1) :
                      SubSeq(longer, i, i + Len(shorter) - 1) = shorter
                THEN RatEq(score, <<Len(shorter), Len(longer)>>)
                ELSE RatEq(score, <<Len(longer) - Levenshtein(a, b), Len(longer)>>)

\* "kitten" and "Sitting" were compared: distance 3, similarity 4/7
C12_Witness ==
    /\ simpc = "returned"
    /\ str1 = <<"k","i","t","t","e","n">>
    /\ str2 = <<"S","i","t","t","i","n","g">>
    /\ RatEq(score, <<4, 7>>)

\* C13: normalize is idempotent: normalizing a normalized text changes nothing,
\* also for texts with '.', ',' or '#' next to white space at their ends.
C13_Idempotent ==
    normpc = "returned" => normalizeAddress(normalized) = normalized

\* s without '.', ',' and '#'
RefStrip(s) == SelectSeq(s, LAMBDA c : c # "." /\ c # "," /\ c # "#")

\* s with every run of white space made one blank
RefCollapse(s) ==
    LET keep == {i \in DOMAIN s : ~(IsSpace(s[i]) /\ i > 1 /\ IsSpace(s[i - 1]))}
        nth(k) == CHOOSE i \in keep : Cardinality({h \in keep : h < i}) = k - 1
    IN [k \in 1..Cardinality(keep) |-> IF IsSpace(s[nth(k)]) THEN " " ELSE s[nth(k)]]

\* the abbreviation of a whole word, the word itself when it has none
RefAbbreviate(word) ==
    IF \E k \in DOMAIN Abbreviations : Abbreviations[k][1] = word
    THEN Abbreviations[CHOOSE k \in DOMAIN Abbreviations : Abbreviations[k][1] = word][2]
    ELSE word

\* the last position of the word that starts at position i of s
WordEnd(s, i) ==
    CHOOSE e \in i..Len(s) :
        /\ \A k \in i..e : IsWordChar(s[k])
        /\ e = Len(s) \/ ~IsWordChar(s[e + 1])

\* s from position i on, every whole word replaced by its abbreviation
RECURSIVE RefWordsFrom(_, _)
RefWordsFrom(s, i) ==
    IF i > Len(s) THEN <<>>
    ELSE IF IsWordChar(s[i])
    THEN RefAbbreviate(SubSeq(s, i, WordEnd(s, i))) \o RefWordsFrom(s, WordEnd(s, i) + 1)
    ELSE <<s[i]>> \o RefWordsFrom(s, i + 1)

\* C14: normalize lower-cases and trims, removes '.', ',' and '#', collapses
\* the white space, then replaces the 15 listed words, whole words only, by
\* their abbreviations; "123 North Main Street" becomes "123 n main st".
C14_WholeWordAbbreviations ==
    normpc = "returned" =>
        /\ normalized = RefWordsFrom(RefCollapse(RefStrip(Folded(address))), 1)
        /\ address = TxtNorthMainStreet =>
              normalized = <<"1","2","3"," ","n"," ","m","a","i","n"," ","s","t">>

\* "northeastern" was normalized: it holds "north", "east" and "northeast" and stays
C14_Witness ==
    /\ normpc = "returned"
    /\ address = <<"n","o","r","t","h","e","a","s","t","e","r","n">>
    /\ normalized = address

\* the year a raw value stands for, or Null: the raw value is a whole number,
\* or a text of digits only, from 1900 to 2030
SaneYear(raw) ==
    IF raw.t = "number" THEN (IF raw.n >= 1900 /\ raw.n <= 2030 THEN Num(raw.n) ELSE Null)
    ELSE IF /\ raw.t = "string"
            /\ raw.s # <<>>
            /\ \A i \in DOMAIN raw.s : IsDigit(raw.s[i])
            /\ ParseDigits(raw.s, 1, 0).n >= 1900
            /\ ParseDigits(raw.s, 1, 0).n <= 2030
    THEN Num(ParseDigits(raw.s, 1, 0).n)
    ELSE Null

\* raw values that are no number above 0
NoArea == {Null, Str(TxtAbc), Str(TxtZero), Str(TxtMinus5), Num(0)}

\* C15: the best match is reported with yearBuilt = y only when the raw value
\* is an integer y from 1900 to 2030 ("2005abc" and "1999.9" are no integers),
\* and with a squareFootage only when it is a number above 0; absent otherwise.
C15_BestMatchSanitized ==
    (clientpc = "metadata" /\ metadata # Null) =>
        /\ metadata.yearBuilt = SaneYear(reply.items[1].Year_Built__c)
        /\ metadata.squareFootage.t # "null" => RatLT(<<0, 1>>, metadata.squareFootage.n)
        /\ reply.items[1].Net_RSF__c \in NoArea => metadata.squareFootage.t = "null"

\* C16: in the list of matches handed to the caller every match is there, a
\* yearBuilt that is no integer from 1900 to 2030 is absent, and so is a
\* squareFootage that is no number above 0.
C16_ListSanitized ==
    (clientpc = "matches" /\ ~reply.error /\ reply.success /\ reply.kind = "array") =>
        /\ Len(matchList) = Len(reply.items)
        /\ \A i \in DOMAIN matchList :
              /\ SaneYear(reply.items[i].Year_Built__c) = Null =>
                    matchList[i].Year_Built__c.t = "null"
              /\ reply.items[i].Net_RSF__c \in NoArea => matchList[i].Net_RSF__c.t = "null"

\* C17: a candidate whose street normalizes to the non-empty normalized street
\* of the query has addressScore 1 and combinedScore at least 0.6 and is kept,
\* whatever its name and the store name of the query.
C17_StrongAddressSurvives ==
    (/\ branch \in {"push", "drop"}
     /\ normalizeAddress(params.street.s) # <<>>
     /\ normalizeAddress(sfStreet.s) = normalizeAddress(params.street.s)) =>
        /\ branch = "push"
        /\ RatEq(addressScore, <<1, 1>>)
        /\ RatLE(<<6, 10>>, combinedScore)

\* "X" at "456 Oak Ave" was ranked for "456 Oak Avenue" without a store name:
\* name score 0, combined score 0.6, kept
C17_Witness ==
    /\ branch = "push"
    /\ params.storeName = Undefined
    /\ params.street = Str(TxtOakAvenue)
    /\ Current = RecXOakJson
    /\ sfStreet = Str(TxtOakAve)
    /\ nameScore[1] = 0
    /\ RatEq(combinedScore, <<6, 10>>)

\* the entry at position i of seq comes before the one at position j: its
\* combinedScore is higher, or it is equal and i is the earlier position
ComesBefore(seq, i, j) ==
    \/ RatLT(seq[j].combinedScore, seq[i].combinedScore)
    \/ RatEq(seq[j].combinedScore, seq[i].combinedScore) /\ i < j

\* the first ten of seq in that order
StableTop(seq) ==
    [k \in 1..Min2(10, Len(seq)) |->
        seq[CHOOSE j \in DOMAIN seq :
                Cardinality({i \in DOMAIN seq : ComesBefore(seq, i, j)}) = k - 1]]

\* C18: the result is the top 10 of the surviving matches by combinedScore,
\* matches of equal score in their input order: a match left out scores no
\* higher than any returned one, and on a tie with one it came later.
C18_StableTopTen ==
    [][(pc = "loop" /\ pc' = "done") => result' = StableTop(scoredMatches)]_vars

\* more than ten matches of one score, of different records, were cut to ten
C18_Witness ==
    /\ pc = "done"
    /\ Len(scoredMatches) > 10
    /\ Len(result) = 10
    /\ \E k \in 1..9 : /\ result[k].Name # result[k + 1].Name
                       /\ RatEq(result[k].combinedScore, result[k + 1].combinedScore)
    /\ RatEq(scoredMatches[11].combinedScore, result[10].combinedScore)

\* C19: a response with a status other than 429, 500, 503 and 404 that is not
\* ok, on an attempt that is not the last, ends the call with
\* 'StorTrack API error: <status>', and no further request is made.
C19_NoRetryOnOtherStatus ==
    \A k \in DOMAIN responses :
        (responses[k] \in {400, 401} /\ k < maxRetries) =>
            /\ Len(responses) = k
            /\ fetchpc = "threw"
            /\ thrown = [message |-> "StorTrack API error", status |-> responses[k]]

\* C20: a call returns the cached token without a request exactly when a token
\* is cached and the time is before tokenExpiry, which is the time of caching
\* plus 55 minutes; otherwise it sends a request, and a request that fails
\* returns null and leaves the cache as it is.  No expired token is returned.
C20_TokenCacheWindow ==
    [][/\ calls' = calls + 1 =>
            IF cachedToken # <<>> /\ now < tokenExpiry
            THEN /\ returned' = cachedToken
                 /\ ~contacted'
                 /\ tokpc' = "idle"
                 /\ UNCHANGED <<cachedToken, tokenExpiry>>
            ELSE /\ contacted'
                 /\ tokpc' = "awaiting"
                 /\ UNCHANGED <<cachedToken, tokenExpiry>>
       /\ (tokpc = "awaiting" /\ tokpc' = "idle") =>
            \/ /\ returned' = <<>>
               /\ UNCHANGED <<cachedToken, tokenExpiry>>
            \/ /\ returned' # <<>>
               /\ returned' = cachedToken'
               /\ tokenExpiry' = now + 55
       /\ (returned' # returned /\ returned' # <<>>) =>
            /\ returned' = cachedToken'
            /\ now' < tokenExpiry'
       /\ (calls' = calls + 1 /\ tokpc' = "idle" /\ returned' # <<>>) => now' < tokenExpiry'
      ]_vars

\* the token has expired, the request for a new one failed: null is returned
\* and the expired token is still in the cache
C20_Witness ==
    /\ tokpc = "idle"
    /\ contacted
    /\ returned = <<>>
    /\ cachedToken # <<>>
    /\ now >= tokenExpiry

\* C21: the SQL sent for queryMCPDatabase(database, table, queryParams) with a
\* non-empty queryParams has a WHERE clause with a condition for every entry
\* of queryParams.
C21_ParametersPassThrough ==
    (proxypc = "sent" /\ queryParams.t = "object" /\ Len(queryParams.m) > 0) =>
        /\ includes(sql, <<" ","W","H","E","R","E"," ">>)
        /\ \A i \in DOMAIN queryParams.m :
               includes(sql, queryParams.m[i].k \o <<" ","="," ","'">>
                                 \o queryParams.m[i].v.s \o <<"'">>)

\* the fractions of [0, 1] with a denominator up to MaxDenominator
UnitGrid == {<<n, d>> : n \in 0..MaxDenominator, d \in 1..MaxDenominator} \cap
            {q \in (0..MaxDenominator) \X (1..MaxDenominator) : q[1] <= q[2]}

\* C22: an addressScore above 0.5 makes 0.4 * nameScore + 0.6 * addressScore
\* exceed 0.3, for all scores in [0, 1]; a scored candidate is kept exactly
\* when its combinedScore is above 0.3; and for a query without a store name
\* the nameScore is 0 and a candidate is kept exactly when its addressScore is
\* above 0.5.
C22_AddressDisjunctRedundant ==
    [][(pc = "loop" /\ pc' = "loop" /\ idx' = idx + 1 /\ branch' \in {"push", "drop"}) =>
          /\ \A n \in UnitGrid, a \in UnitGrid :
                 RatLT(<<1, 2>>, a) => RatLT(<<3, 10>>, CombinedScore(n, a))
          /\ Relevant(combinedScore', addressScore') <=> RatLT(<<3, 10>>, combinedScore')
          /\ branch' = "push" <=> RatLT(<<3, 10>>, combinedScore')
          /\ scoredMatches' # scoredMatches <=> RatLT(<<3, 10>>, combinedScore')
          /\ ~Truthy(params.storeName) =>
                 /\ nameScore'[1] = 0
                 /\ branch' = "push" <=> RatLT(<<1, 2>>, addressScore')]_vars

\* a query without a store name keeps a candidate whose street is similar to,
\* and differs from, the street asked for
C22_Witness ==
    /\ branch = "push"
    /\ ~Truthy(params.storeName)
    /\ nameScore[1] = 0
    /\ RatLT(<<1, 2>>, addressScore)
    /\ RatLT(addressScore, <<1, 1>>)
    /\ RatLT(combinedScore, <<6, 10>>)

\* the call has ended
FetchDone == fetchpc \in {"returned", "threw"}

\* response k is ok and its body is JSON
Parsed200(k) == responses[k] = 200 /\ bodies[k].t # "text"

\* the error of a last attempt that failed with response k
LastError(k) ==
    IF responses[k] = 429 THEN [message |-> "Max retries exceeded", status |-> 0]
    ELSE IF responses[k] = 0 THEN [message |-> "fetch failed", status |-> 0]
    ELSE IF responses[k] = 200 THEN [message |-> "Unexpected token", status |-> 200]
    ELSE [message |-> "StorTrack API error", status |-> responses[k]]

\* what holds of the requests of a call that has a token, but for the end of
\* the requests after an ok response
FetchBounded ==
    /\ Len(responses) <= maxRetries
    /\ fetchpc = "returned" =>
           /\ responses # <<>>
           /\ Parsed200(Len(responses))
           /\ data.t = "array"
           /\ data = IF bodies[Len(bodies)].t = "array" THEN bodies[Len(bodies)]
                     ELSE [t |-> "array", items |-> <<bodies[Len(bodies)]>>, id |-> 0]
    /\ (fetchpc = "threw" /\ token # <<>>) =>
           /\ Len(responses) = maxRetries
           /\ \A k \in DOMAIN responses : ~Parsed200(k)
           /\ thrown = LastError(maxRetries)

\* C23 as stated: at most maxRetries requests, none after the first ok
\* response, whose body is returned as an array; otherwise the call throws
\* after attempt maxRetries, 'Max retries exceeded' after a 429 and the last
\* error otherwise.
C23_NoRequestAfterOk ==
    /\ FetchBounded
    /\ \A k \in DOMAIN responses :
           responses[k] = 200 => (k = Len(responses) /\ fetchpc = "returned")

\* C23, amended: the same with "the first ok response whose body is JSON" in
\* place of "the first ok response" (an ok response whose body is not JSON is
\* a failed attempt, its error is that of response.json()), and every call ends.
C23_BoundedAndTerminates ==
    /\ [](/\ FetchBounded
          /\ \A k \in DOMAIN responses :
                 Parsed200(k) => (k = Len(responses) /\ fetchpc = "returned"))
    /\ <>FetchDone

\* three requests were made: the first got an ok response with a body that is
\* no JSON, the last a 429, and the call ended with 'Max retries exceeded'
C23_Witness ==
    /\ fetchpc = "threw"
    /\ maxRetries = 3
    /\ Len(responses) = 3
    /\ responses[1] = 200
    /\ responses[3] = 429
    /\ thrown.message = "Max retries exceeded"

\* the rows of a body in the documented format { results: [rows], row_count }
DocumentedRows ==
    IF /\ jsonResponse.t = "object"
       /\ "key" \in DOMAIN jsonResponse
       /\ jsonResponse.key = "results"
       /\ jsonResponse.value.t = "array"
    THEN jsonResponse.value.items
    ELSE <<>>

\* C24: for an answer in the documented format every returned row is in
\* ratesByStore under its Store_ID exactly once, in the order of the rows (so
\* ratesByStore is not empty when rows are returned), and datesByStore holds
\* for each store its distinct dates, latest first.
C24_RowsGroupedByStore ==
    (ratespc = "done" /\ DocumentedRows # <<>>) =>
        /\ DOMAIN ratesByStore = {DocumentedRows[i].Store_ID : i \in DOMAIN DocumentedRows}
        /\ DOMAIN datesByStore = DOMAIN ratesByStore
        /\ \A s \in DOMAIN ratesByStore :
              /\ Len(ratesByStore[s]) =
                     Cardinality({i \in DOMAIN DocumentedRows : DocumentedRows[i].Store_ID = s})
              /\ \A k \in DOMAIN ratesByStore[s] : ratesByStore[s][k].storeId = s
              /\ \A k \in 1..(Len(datesByStore[s]) - 1) :
                     datesByStore[s][k] > datesByStore[s][k + 1]
              /\ {datesByStore[s][k] : k \in DOMAIN datesByStore[s]} =
                     {DocumentedRows[i].Date_Collected :
                          i \in {j \in DOMAIN DocumentedRows :
                                     /\ DocumentedRows[j].Store_ID = s
                                     /\ DocumentedRows[j].Date_Collected # 0}}

\* C25: with requests interleaved at their awaits, every step that changes
\* cachedToken or tokenExpiry is the step of one request whose auth response
\* held a token: it writes that response's token and the time of the step plus
\* 55 minutes together; the cache holds a token exactly when it holds an
\* expiry; and tokenExpiry never decreases.
C25_PairWrittenTogether ==
    [][/\ (cachedToken' # cachedToken \/ tokenExpiry' # tokenExpiry) =>
            \E r \in 1..MaxRequests :
                /\ requests[r].at = "json"
                /\ requests'[r] = [at |-> "done", returned |-> <<"Bearer", r>>]
                /\ \A q \in (1..MaxRequests) \ {r} : requests'[q] = requests[q]
                /\ cachedToken' = <<"Bearer", r>>
                /\ tokenExpiry' = now + 55
       /\ tokenExpiry' >= tokenExpiry
       /\ (cachedToken' = <<>>) <=> (tokenExpiry' = 0)
      ]_vars

\* two requests found no valid token and each asked for its own; the token of
\* request 1 was written after that of request 2, at a later time
C25_Witness ==
    /\ requests # <<>>
    /\ requests[1] = [at |-> "done", returned |-> <<"Bearer", 1>>]
    /\ requests[2] = [at |-> "done", returned |-> <<"Bearer", 2>>]
    /\ cachedToken = <<"Bearer", 1>>
    /\ tokenExpiry > 56
    /\ now < tokenExpiry

\* the state the table has once the queued updates are applied
Latest ==
    Applied([filterStore |-> filterStore, sortField |-> sortField,
             sortDirection |-> sortDirection], updates, 1)

====
